---- MODULE Spec2Model ----
(***************************************************************************)
(* Model of the Stim circuit core: the arena-backed circuit data model,    *)
(* the builder API (append_op, append_operation, append_circuit, +=, *=,   *)
(* clear), the character-driven parser with REPEAT expansion, the textual  *)
(* renderer and the detector/observable resolver.                          *)
(*                                                                         *)
(* A 32-bit target word is kept as a pair: hi holds bits 24..31, lo holds  *)
(* bits 0..23, so that every mask and shift of the source is computed on   *)
(* the exact bit pattern.  A text is a sequence of one-character strings;  *)
(* the end-of-input sentinel is the token EOF.  A parens argument (a       *)
(* double in the source) is kept in thousandths.                           *)
(***************************************************************************)
EXTENDS Integers, Sequences, FiniteSets, TLC

VARIABLES cir, last

vars == <<cir, last>>

\* ------------------------------------------------------------------ bounds

\* Largest number of operations a circuit may hold after a builder call.
MaxOps == 3
\* Largest arena length a circuit may hold after a builder call.
MaxArena == 3
\* Largest repetition count handed to append_circuit and *=.
MaxReps == 3
\* Longest digit string enumerated in full for read_uint24_t.
MaxDigits == 3
\* Largest record lookback enumerated for read_record_target_into.
MaxLookback == 17

\* ------------------------------------------------------------ target words

Pow24 == 16777216

Word(hi, lo) == [hi |-> hi, lo |-> lo]

RECURSIVE BitAnd(_, _, _)
BitAnd(a, b, n) ==
    IF n = 0 \/ a = 0 \/ b = 0 THEN 0
    ELSE (a % 2) * (b % 2) + 2 * BitAnd(a \div 2, b \div 2, n - 1)

RECURSIVE BitOr(_, _, _)
BitOr(a, b, n) ==
    IF n = 0 \/ (a = 0 /\ b = 0) THEN 0
    ELSE (IF (a % 2) + (b % 2) > 0 THEN 1 ELSE 0) + 2 * BitOr(a \div 2, b \div 2, n - 1)

RECURSIVE BitXor(_, _, _)
BitXor(a, b, n) ==
    IF n = 0 \/ (a = 0 /\ b = 0) THEN 0
    ELSE ((a + b) % 2) + 2 * BitXor(a \div 2, b \div 2, n - 1)

AndW(w, m) == [hi |-> BitAnd(w.hi, m.hi, 8), lo |-> BitAnd(w.lo, m.lo, 24)]
OrW(w, m) == [hi |-> BitOr(w.hi, m.hi, 8), lo |-> BitOr(w.lo, m.lo, 24)]
XorW(w, m) == [hi |-> BitXor(w.hi, m.hi, 8), lo |-> BitXor(w.lo, m.lo, 24)]
ZeroW == Word(0, 0)

\* The bit layout of the data model: qubit index in bits 0..23, Pauli X in
\* bit 24, Pauli Z in bit 25, record lookback in bits 28..30, inversion in
\* bit 31.
TARGET_QUBIT_MASK == Word(0, Pow24 - 1)
TARGET_PAULI_X_MASK == Word(1, 0)
TARGET_PAULI_Z_MASK == Word(2, 0)
TARGET_RECORD_SHIFT == 28
TARGET_RECORD_MASK == Word(112, 0)
TARGET_INVERTED_MASK == Word(128, 0)

\* A plain qubit target.
Q(q) == Word(0, q)
\* dt << TARGET_RECORD_SHIFT, truncated to 32 bits.
ShiftRecord(dt) == Word((dt * 16) % 256, 0)
\* (w & TARGET_RECORD_MASK) >> TARGET_RECORD_SHIFT
RecordOf(w) == BitAnd(w.hi, TARGET_RECORD_MASK.hi, 8) \div 16
\* w & TARGET_QUBIT_MASK
QubitOf(w) == AndW(w, TARGET_QUBIT_MASK).lo

\* ------------------------------------------------------------ gate catalog

GATE_TAKES_PARENS_ARGUMENT == "TAKES_PARENS_ARGUMENT"
GATE_PRODUCES_RESULTS == "PRODUCES_RESULTS"
GATE_TARGETS_PAULI_STRING == "TARGETS_PAULI_STRING"
GATE_ONLY_TARGETS_MEASUREMENT_RECORD == "ONLY_TARGETS_MEASUREMENT_RECORD"
GATE_CAN_TARGET_MEASUREMENT_RECORD == "CAN_TARGET_MEASUREMENT_RECORD"
GATE_TARGETS_PAIRS == "TARGETS_PAIRS"
GATE_IS_BLOCK == "IS_BLOCK"
GATE_IS_NOT_FUSABLE == "IS_NOT_FUSABLE"

\* The gates of the catalog the model uses: the name (which is also the id),
\* the characters of the name, and the flag set.
GATE_DATA ==
    [H |-> [name |-> <<"H">>, flags |-> {}],
     X |-> [name |-> <<"X">>, flags |-> {}],
     M |-> [name |-> <<"M">>, flags |-> {GATE_PRODUCES_RESULTS}],
     SWAP |-> [name |-> <<"S", "W", "A", "P">>, flags |-> {GATE_TARGETS_PAIRS}],
     CNOT |-> [name |-> <<"C", "N", "O", "T">>,
               flags |-> {GATE_TARGETS_PAIRS, GATE_CAN_TARGET_MEASUREMENT_RECORD}],
     X_ERROR |-> [name |-> <<"X", "_", "E", "R", "R", "O", "R">>,
                  flags |-> {GATE_TAKES_PARENS_ARGUMENT}],
     E |-> [name |-> <<"E">>,
            flags |-> {GATE_TARGETS_PAULI_STRING, GATE_TAKES_PARENS_ARGUMENT,
                       GATE_IS_NOT_FUSABLE}],
     DETECTOR |-> [name |-> <<"D", "E", "T", "E", "C", "T", "O", "R">>,
                   flags |-> {GATE_ONLY_TARGETS_MEASUREMENT_RECORD, GATE_IS_NOT_FUSABLE}],
     OBSERVABLE_INCLUDE |->
         [name |-> <<"O", "B", "S", "E", "R", "V", "A", "B", "L", "E", "_",
                     "I", "N", "C", "L", "U", "D", "E">>,
          flags |-> {GATE_ONLY_TARGETS_MEASUREMENT_RECORD, GATE_TAKES_PARENS_ARGUMENT,
                     GATE_IS_NOT_FUSABLE}],
     REPEAT |-> [name |-> <<"R", "E", "P", "E", "A", "T">>,
                 flags |-> {GATE_IS_BLOCK, GATE_IS_NOT_FUSABLE}]]

GateNames == DOMAIN GATE_DATA

Flags(g) == GATE_DATA[g].flags

\* ------------------------------------------------------------- data model

\* Circuit::Circuit()
EmptyCircuit ==
    [jagged_data |-> <<>>, operations |-> <<>>, num_qubits |-> 0, num_measurements |-> 0]

\* The pointer range an operation's target_data.targets views in its arena.
Targets(c, op) == SubSeq(c.jagged_data, op.offset + 1, op.offset + op.length)

Max(a, b) == IF a >= b THEN a ELSE b

RECURSIVE MaxQubitPlus1(_)
MaxQubitPlus1(ws) ==
    IF ws = <<>> THEN 0 ELSE Max(QubitOf(Head(ws)) + 1, MaxQubitPlus1(Tail(ws)))

\* Operation::can_fuse
can_fuse(op, other) ==
    /\ op.gate = other.gate
    /\ op.arg = other.arg
    /\ GATE_IS_NOT_FUSABLE \notin Flags(op.gate)

\* Circuit::clear
clear(c) == EmptyCircuit

\* --------------------------------------------------------------- builder

Thrown(c) == [c |-> c, ok |-> FALSE]
Returned(c) == [c |-> c, ok |-> TRUE]

\* _circuit_incremental_update_from_back
circuit_incremental_update_from_back(c) ==
    LET op == c.operations[Len(c.operations)]
        vec == Targets(c, op)
    IN [c EXCEPT
           !.num_measurements =
               IF GATE_PRODUCES_RESULTS \in Flags(op.gate) THEN @ + Len(vec) ELSE @,
           !.num_qubits = Max(@, MaxQubitPlus1(vec))]

\* append_operation giving the new operation the start of the arena.
append_operation_at_zero(c, src, op) ==
    circuit_incremental_update_from_back(
        [c EXCEPT !.operations = Append(@, [gate |-> op.gate, arg |-> op.arg,
                                            offset |-> 0, length |-> op.length]),
                  !.jagged_data = @ \o Targets(src, op)])

\* Circuit::append_operation: the operation `op` views the arena of `src`.
append_operation(c, src, op) ==
    LET converted == [gate |-> op.gate, arg |-> op.arg,
                      offset |-> Len(c.jagged_data), length |-> op.length]
    IN circuit_incremental_update_from_back(
           [c EXCEPT !.operations = Append(@, converted),
                     !.jagged_data = @ \o Targets(src, op)])

RECURSIVE AppendOperations(_, _, _)
AppendOperations(c, src, k) ==
    IF k > Len(src.operations) THEN c
    ELSE AppendOperations(append_operation(c, src, src.operations[k]), src, k + 1)

RECURSIVE Replicate(_, _)
Replicate(ops, n) == IF n <= 0 THEN <<>> ELSE ops \o Replicate(ops, n - 1)

\* append_circuit whose self branch copies the operations and forgets to
\* scale num_measurements.
append_circuit_unscaled(c, other, self, repetitions, stale) ==
    IF repetitions = 0 THEN [c |-> c, status |-> "ok"]
    ELSE IF self
    THEN [c |-> [c EXCEPT !.operations = @ \o Replicate(@, repetitions)], status |-> "ok"]
    ELSE [c |-> AppendOperations(c, other, 1), status |-> "ok"]

\* Circuit::append_circuit.  `self` says that the argument is the circuit
\* itself.  On another circuit the replication loop keeps the iterator
\* single_rep_end across its inserts: the first insert is given a valid
\* range; a later insert reads the kept iterator after the vector may have
\* been reallocated, which the language leaves undefined.  `stale` chooses
\* the outcome of those later inserts: FALSE, the storage did not move and
\* the loop replicates as written; TRUE, the second insert ends the call
\* abnormally with the copies made so far.
append_circuit(c, other, self, repetitions, stale) ==
    LET original_size == Len(c.operations) IN
    IF repetitions = 0 THEN [c |-> c, status |-> "ok"]
    ELSE IF self
    THEN [c |-> [c EXCEPT !.num_measurements = @ * (repetitions + 1),
                          !.operations = @ \o Replicate(@, repetitions)],
          status |-> "ok"]
    ELSE LET c1 == AppendOperations(c, other, 1)
             rep == SubSeq(c1.operations, original_size + 1, Len(c1.operations))
         IN IF stale /\ repetitions >= 3 /\ rep # <<>>
            THEN [c |-> [c1 EXCEPT !.operations = @ \o rep], status |-> "ub"]
            ELSE [c |-> [c1 EXCEPT !.operations = @ \o Replicate(rep, repetitions - 1)],
                  status |-> "ok"]

\* The mask of bits append_op permits in a target of a gate with `flags`.
valid_target_mask(flags) ==
    LET m1 == IF GATE_PRODUCES_RESULTS \in flags
              THEN OrW(TARGET_QUBIT_MASK, TARGET_INVERTED_MASK) ELSE TARGET_QUBIT_MASK
        m2 == IF GATE_TARGETS_PAULI_STRING \in flags
              THEN OrW(m1, OrW(TARGET_PAULI_X_MASK, TARGET_PAULI_Z_MASK)) ELSE m1
    IN IF flags \cap {GATE_ONLY_TARGETS_MEASUREMENT_RECORD,
                      GATE_CAN_TARGET_MEASUREMENT_RECORD} # {}
       THEN OrW(m2, TARGET_RECORD_MASK) ELSE m2

\* The TARGETS_PAIRS checks of append_op and of the parser: an even number
\* of words, and no pair (2k, 2k+1) of equal words.
OddCount(vec) == Len(vec) % 2 = 1
SelfInteraction(vec) == \E k \in 1..(Len(vec) \div 2) : vec[2 * k - 1] = vec[2 * k]

\* fuses_with_back looking at the first operation instead of the last.
fuses_with_front(c, gate_name, arg, allow_fusing) ==
    /\ allow_fusing
    /\ GATE_IS_NOT_FUSABLE \notin Flags(gate_name)
    /\ c.operations # <<>>
    /\ c.operations[1].gate = gate_name
    /\ c.operations[1].arg = arg

\* The condition under which append_op extends the last operation.
fuses_with_back(c, gate_name, arg, allow_fusing) ==
    /\ allow_fusing
    /\ GATE_IS_NOT_FUSABLE \notin Flags(gate_name)
    /\ c.operations # <<>>
    /\ c.operations[Len(c.operations)].gate = gate_name
    /\ c.operations[Len(c.operations)].arg = arg

\* append_op writing the targets into the arena before it checks them.
append_op_writing_first(c, gate_name, vec, arg, allow_fusing) ==
    IF gate_name \notin GateNames THEN Thrown(c)
    ELSE IF \/ GATE_TARGETS_PAIRS \in Flags(gate_name) /\ OddCount(vec)
            \/ GATE_TARGETS_PAIRS \in Flags(gate_name) /\ SelfInteraction(vec)
            \/ arg # 0 /\ GATE_TAKES_PARENS_ARGUMENT \notin Flags(gate_name)
            \/ \E i \in 1..Len(vec) :
                  vec[i] # AndW(vec[i], valid_target_mask(Flags(gate_name)))
    THEN Thrown([c EXCEPT !.jagged_data = @ \o vec])
    ELSE Returned(circuit_incremental_update_from_back(
             [c EXCEPT
                 !.operations =
                     Append(@, [gate |-> gate_name, arg |-> arg,
                                offset |-> Len(c.jagged_data), length |-> Len(vec)]),
                 !.jagged_data = @ \o vec]))

\* Circuit::append_op
append_op(c, gate_name, vec, arg, allow_fusing) ==
    IF gate_name \notin GateNames THEN Thrown(c)
    ELSE LET flags == Flags(gate_name)
             n == Len(c.operations)
         IN
    IF GATE_TARGETS_PAIRS \in flags /\ OddCount(vec) THEN Thrown(c)
    ELSE IF GATE_TARGETS_PAIRS \in flags /\ SelfInteraction(vec) THEN Thrown(c)
    ELSE IF arg # 0 /\ GATE_TAKES_PARENS_ARGUMENT \notin flags THEN Thrown(c)
    ELSE IF \E i \in 1..Len(vec) : vec[i] # AndW(vec[i], valid_target_mask(flags))
         THEN Thrown(c)
    ELSE IF fuses_with_back(c, gate_name, arg, allow_fusing)
    THEN Returned(circuit_incremental_update_from_back(
             [c EXCEPT
                 !.num_measurements =
                     IF GATE_PRODUCES_RESULTS \in flags
                     THEN @ - c.operations[n].length ELSE @,
                 !.jagged_data = @ \o vec,
                 !.operations[n].length = @ + Len(vec)]))
    ELSE Returned(circuit_incremental_update_from_back(
             [c EXCEPT
                 !.operations =
                     Append(@, [gate |-> gate_name, arg |-> arg,
                                offset |-> Len(c.jagged_data), length |-> Len(vec)]),
                 !.jagged_data = @ \o vec]))

\* Circuit::operator+=
plus_eq(c, other, self) == append_circuit(c, other, self, 1, FALSE)

\* operator*= without its test for zero repetitions.
times_eq_unchecked(c, repetitions) ==
    IF repetitions = 0 THEN [c |-> c, status |-> "ok"]
    ELSE append_circuit(c, c, TRUE, repetitions - 1, FALSE)

\* Circuit::operator*=
times_eq(c, repetitions) ==
    IF repetitions = 0 THEN [c |-> clear(c), status |-> "ok"]
    ELSE append_circuit(c, c, TRUE, repetitions - 1, FALSE)

\* ------------------------------------------------------------- characters

EOF == "EOF"

Digits == {"0", "1", "2", "3", "4", "5", "6", "7", "8", "9"}
DigitSeq == <<"0", "1", "2", "3", "4", "5", "6", "7", "8", "9">>
UpperSeq == <<"A", "B", "C", "D", "E", "F", "G", "H", "I", "J", "K", "L", "M",
              "N", "O", "P", "Q", "R", "S", "T", "U", "V", "W", "X", "Y", "Z">>
LowerSeq == <<"a", "b", "c", "d", "e", "f", "g", "h", "i", "j", "k", "l", "m",
              "n", "o", "p", "q", "r", "s", "t", "u", "v", "w", "x", "y", "z">>
Upper == {UpperSeq[i] : i \in 1..26}
Lower == {LowerSeq[i] : i \in 1..26}

\* c - '0'
DigitVal(ch) == (CHOOSE i \in 1..10 : DigitSeq[i] = ch) - 1

ToUpper(ch) == IF ch \in Lower THEN UpperSeq[CHOOSE i \in 1..26 : LowerSeq[i] = ch] ELSE ch

isspace(ch) == ch \in {" ", "\t", "\n", "\r", "\f"}

is_name_char(ch) == ch \in Upper \cup Lower \cup Digits \cup {"_"}

is_double_char(ch) == ch \in Digits \cup {".", "e", "E", "+", "-"}

\* ------------------------------------------------------------ parser state

\* A parse in progress: the text and the number k of characters the source
\* callback has handed out, the lookahead c, the circuit being written, the
\* value v the last reader returned, and err, set once an exception is in
\* flight.
StartParse(c, text) == [text |-> text, k |-> 0, c |-> EOF, cir |-> c, v |-> 0, err |-> FALSE]

\* The source callback of append_from_text: text[k++], or EOF at the end.
NextChar(p) == IF p.k < Len(p.text) THEN p.text[p.k + 1] ELSE EOF

\* Consume handing out the same character again.
ConsumeNothing(p) == p

Consume(p) == IF p.k < Len(p.text) THEN [p EXCEPT !.k = @ + 1] ELSE p
\* c = read_char()
ReadChar(p) == [Consume(p) EXCEPT !.c = NextChar(p)]

Throw(p) == [p EXCEPT !.err = TRUE]

RECURSIVE read_past_within_line_whitespace(_)
read_past_within_line_whitespace(p) ==
    IF p.c \in {" ", "\t"} THEN read_past_within_line_whitespace(ReadChar(p)) ELSE p

\* GATE_DATA.at(name_buf, n): the gate of that name, letters compared
\* without case; v is its id, and an unknown name throws.
GateAt(p, buf) ==
    LET up == [i \in 1..Len(buf) |-> ToUpper(buf[i])]
        hits == {g \in GateNames : GATE_DATA[g].name = up}
    IN IF hits = {} THEN Throw(p) ELSE [p EXCEPT !.v = CHOOSE g \in hits : TRUE]

RECURSIVE ReadNameChars(_, _)
ReadNameChars(p, buf) ==
    IF is_name_char(p.c) /\ Len(buf) < 32
    THEN ReadNameChars(ReadChar(p), Append(buf, p.c))
    ELSE GateAt(p, buf)

read_gate_name(p) == ReadNameChars(p, <<>>)

RECURSIVE DigitsValue(_, _)
DigitsValue(ds, acc) ==
    IF ds = <<>> THEN acc ELSE DigitsValue(Tail(ds), 10 * acc + DigitVal(Head(ds)))

RECURSIVE LeadingDigits(_)
LeadingDigits(buf) ==
    IF buf # <<>> /\ Head(buf) \in Digits
    THEN <<Head(buf)>> \o LeadingDigits(Tail(buf)) ELSE <<>>

\* strtod on a token of digits with at most one '.', an optional leading
\* sign and at most three fraction digits: the value in thousandths, or -1
\* when the conversion does not use the whole token (end != buf + n) or the
\* value is negative.  The empty token converts to 0 with end = buf.
StrToD(buf) ==
    LET signed == buf # <<>> /\ Head(buf) \in {"+", "-"}
        body == IF signed THEN Tail(buf) ELSE buf
        ip == LeadingDigits(body)
        rest == SubSeq(body, Len(ip) + 1, Len(body))
        dotted == rest # <<>> /\ Head(rest) = "."
        fp == IF dotted THEN LeadingDigits(Tail(rest)) ELSE <<>>
        used == Len(ip) + (IF dotted THEN 1 + Len(fp) ELSE 0)
        fp3 == SubSeq(fp \o <<"0", "0", "0">>, 1, 3)
        value == 1000 * DigitsValue(ip, 0) + DigitsValue(fp3, 0)
    IN IF buf = <<>> THEN 0
       ELSE IF Len(ip) + Len(fp) = 0 \/ used # Len(body) THEN -1
       ELSE IF signed /\ Head(buf) = "-" /\ value # 0 THEN -1
       ELSE value

RECURSIVE ReadDoubleChars(_, _)
ReadDoubleChars(p, buf) ==
    IF Len(buf) < 63 /\ is_double_char(p.c)
    THEN ReadDoubleChars(ReadChar(p), Append(buf, p.c))
    ELSE IF StrToD(buf) < 0 THEN Throw(p) ELSE [p EXCEPT !.v = StrToD(buf)]

read_non_negative_double(p) == ReadDoubleChars(p, <<>>)

\* read_parens_argument after its value was read, at the closing parens.
ParensClosed(p2, v) == IF p2.c # ")" THEN Throw(p2) ELSE [ReadChar(p2) EXCEPT !.v = v]

ParensValueRead(p1) ==
    IF p1.err THEN p1 ELSE ParensClosed(read_past_within_line_whitespace(p1), p1.v)

read_parens_argument(p) ==
    IF p.c # "(" THEN Throw(p)
    ELSE ParensValueRead(
             read_non_negative_double(read_past_within_line_whitespace(ReadChar(p))))

\* result *= 10; result += c - '0' on the 32-bit unsigned accumulator, held
\* as a word: the eight bits from 24 up in hi, the rest in lo.
TimesTenPlus(result, ch) ==
    Word((result.hi * 10 + (result.lo * 10 + DigitVal(ch)) \div Pow24) % 256,
         (result.lo * 10 + DigitVal(ch)) % Pow24)

TooLargeStrict(result) == result.hi > 1 \/ (result.hi = 1 /\ result.lo > 0)

\* result >= uint32_t{1} << 24
TooLarge(result) == result.hi # 0

\* The do-while loop of read_uint24_t, entered on a digit in c.
RECURSIVE ReadUintDigits(_, _)

UintDigitRead(p1, r) ==
    IF p1.c \in Digits THEN ReadUintDigits(p1, r) ELSE [p1 EXCEPT !.v = r.lo]

ReadUintDigits(p, result) ==
    IF TooLarge(TimesTenPlus(result, p.c)) THEN Throw(p)
    ELSE UintDigitRead(ReadChar(p), TimesTenPlus(result, p.c))

read_uint24_t(p) == IF p.c \notin Digits THEN Throw(p) ELSE ReadUintDigits(p, ZeroW)

\* do { c = read_char(); } while (c != '\n' && c != EOF)
RECURSIVE SkipComment(_)

CommentCharRead(p1) == IF p1.c # "\n" /\ p1.c # EOF THEN SkipComment(p1) ELSE p1

SkipComment(p) == CommentCharRead(ReadChar(p))

SkipCommentIfAny(p1) == IF p1.c = "#" THEN SkipComment(p1) ELSE p1

\* The value read_until_next_line_arg returns, in v.
AtNextLineArg(p2) == [p2 EXCEPT !.v = (p2.c # "\n" /\ p2.c # "{" /\ p2.c # EOF)]

read_until_next_line_arg(p) ==
    IF p.c \notin {" ", "#", "\t", "\n", "{", EOF} THEN Throw(p)
    ELSE AtNextLineArg(SkipCommentIfAny(read_past_within_line_whitespace(p)))

\* ---------------------------------------------------------------- parser

PushTarget(p, w) == [p EXCEPT !.cir.jagged_data = Append(@, w)]
SeeQubit(p, q) == [p EXCEPT !.cir.num_qubits = Max(@, q + 1)]

\* read_raw_qubit_target_into after q = read_uint24_t(...)
RawQubitRead(p1) == IF p1.err THEN p1 ELSE SeeQubit(PushTarget(p1, Q(p1.v)), p1.v)

read_raw_qubit_target_into(p) == RawQubitRead(read_uint24_t(p))

\* read_record_target_into after dt = read_uint24_t(...)
RecordLookbackRead(p3, q) ==
    IF p3.err THEN p3
    ELSE IF p3.v = 0 THEN Throw(p3)
    ELSE IF p3.v >= 16 THEN Throw(p3)
    ELSE PushTarget(p3, OrW(Q(q), ShiftRecord(p3.v)))

\* read_record_target_into after num_qubits took q in.
RecordQubitSeen(p2, q, required) ==
    IF p2.c = "@"
    THEN IF NextChar(p2) # "-" THEN Throw(Consume(p2))
         ELSE RecordLookbackRead(read_uint24_t(ReadChar(Consume(p2))), q)
    ELSE IF required THEN Throw(p2)
    ELSE PushTarget(p2, OrW(Q(q), ShiftRecord(0)))

\* read_record_target_into after q = read_uint24_t(...)
RecordQubitRead(p1, required) ==
    IF p1.err THEN p1 ELSE RecordQubitSeen(SeeQubit(p1, p1.v), p1.v, required)

read_record_target_into(p, required) == RecordQubitRead(read_uint24_t(p), required)

\* The mask m of a Pauli letter.
PauliMask(c) ==
    IF c \in {"X", "x"} THEN TARGET_PAULI_X_MASK
    ELSE IF c \in {"Y", "y"} THEN OrW(TARGET_PAULI_X_MASK, TARGET_PAULI_Z_MASK)
    ELSE TARGET_PAULI_Z_MASK

PauliIndexRead(p2, m) ==
    IF p2.err THEN p2 ELSE SeeQubit(PushTarget(p2, OrW(Q(p2.v), m)), p2.v)

PauliLetterRead(p1, m) ==
    IF p1.c = " " THEN Throw(p1) ELSE PauliIndexRead(read_uint24_t(p1), m)

\* One iteration of the loop of read_pauli_targets_into.
read_pauli_target_into(p) ==
    IF p.c \notin {"X", "x", "Y", "y", "Z", "z"} THEN Throw(p)
    ELSE PauliLetterRead(ReadChar(p), PauliMask(p.c))

ResultIndexRead(p2, flipped) ==
    IF p2.err THEN p2
    ELSE [PushTarget(SeeQubit(p2, p2.v), XorW(Q(p2.v), flipped))
             EXCEPT !.cir.num_measurements = @ + 1]

\* One iteration of the loop of read_result_targets_into.
read_result_target_into(p) ==
    IF p.c = "!" THEN ResultIndexRead(read_uint24_t(ReadChar(p)), TARGET_INVERTED_MASK)
    ELSE ResultIndexRead(read_uint24_t(p), ZeroW)

\* read_block_target_into reading the repetition count as a qubit target.
read_block_target_as_qubit(p1) == RawQubitRead(p1)

\* circuit.jagged_data.push_back(read_uint24_t(c, read_char)) of a block gate.
read_block_target_into(p1) == IF p1.err THEN p1 ELSE PushTarget(p1, Q(p1.v))

ReadOneTarget(p, form) ==
    CASE form = "raw" -> read_raw_qubit_target_into(p)
      [] form = "record" -> read_record_target_into(p, TRUE)
      [] form = "controllable" -> read_record_target_into(p, FALSE)
      [] form = "result" -> read_result_target_into(p)
      [] form = "pauli" -> read_pauli_target_into(p)
      [] form = "block" -> read_block_target_into(read_uint24_t(p))

\* while (read_until_next_line_arg(c, read_char)) { read one target }: the
\* loop of read_raw_qubit_targets_into, read_record_targets_into,
\* read_classically_controllable_qubit_targets_into, read_result_targets_into,
\* read_pauli_targets_into and of the block branch.
RECURSIVE ReadTargets(_, _)

TargetRead(p2, form) == IF p2.err THEN p2 ELSE ReadTargets(p2, form)

NextLineArgRead(p1, form) ==
    IF p1.err \/ ~p1.v THEN p1 ELSE TargetRead(ReadOneTarget(p1, form), form)

ReadTargets(p, form) == NextLineArgRead(read_until_next_line_arg(p), form)

RECURSIVE read_past_dead_space_between_commands(_)
read_past_dead_space_between_commands(p) ==
    IF isspace(p.c) THEN read_past_dead_space_between_commands(ReadChar(p))
    ELSE IF p.c = EOF \/ p.c # "#" THEN p
    ELSE read_past_dead_space_between_commands(SkipComment(p))

\* The targets branch circuit_read_single_operation takes, by the gate's flags.
TargetForm(flags) ==
    IF flags \cap {GATE_IS_BLOCK, GATE_ONLY_TARGETS_MEASUREMENT_RECORD, GATE_PRODUCES_RESULTS,
                   GATE_TARGETS_PAULI_STRING, GATE_CAN_TARGET_MEASUREMENT_RECORD} = {}
    THEN "raw"
    ELSE IF GATE_ONLY_TARGETS_MEASUREMENT_RECORD \in flags THEN "record"
    ELSE IF GATE_CAN_TARGET_MEASUREMENT_RECORD \in flags THEN "controllable"
    ELSE IF GATE_PRODUCES_RESULTS \in flags THEN "result"
    ELSE IF GATE_TARGETS_PAULI_STRING \in flags THEN "pauli"
    ELSE "block"

\* The targets read since `offset`.
TargetsSince(p, offset) == SubSeq(p.cir.jagged_data, offset + 1, Len(p.cir.jagged_data))

\* circuit_read_single_operation after the targets were read: the brace
\* checks, the pair checks and the push.
TargetsRead(p3, gate, val, offset) ==
    IF p3.err THEN p3
    ELSE IF GATE_IS_BLOCK \in Flags(gate) /\ p3.c # "{" THEN Throw(p3)
    ELSE IF p3.c = "{" /\ GATE_IS_BLOCK \notin Flags(gate) THEN Throw(p3)
    ELSE IF GATE_TARGETS_PAIRS \in Flags(gate) /\ OddCount(TargetsSince(p3, offset))
    THEN Throw(p3)
    ELSE IF GATE_TARGETS_PAIRS \in Flags(gate) /\ SelfInteraction(TargetsSince(p3, offset))
    THEN Throw(p3)
    ELSE [p3 EXCEPT !.cir.operations =
             Append(@, [gate |-> gate, arg |-> val, offset |-> offset,
                        length |-> Len(p3.cir.jagged_data) - offset])]

\* circuit_read_single_operation after val was read.
ArgumentRead(p2, gate) ==
    IF p2.err THEN p2
    ELSE TargetsRead(ReadTargets(p2, TargetForm(Flags(gate))), gate, p2.v,
                     Len(p2.cir.jagged_data))

\* GateNameRead reading a parens argument whenever one is written.
GateNameReadAnyParens(p1) ==
    IF p1.err THEN p1
    ELSE IF GATE_TAKES_PARENS_ARGUMENT \in Flags(p1.v) \/ p1.c = "("
    THEN ArgumentRead(read_parens_argument(read_past_within_line_whitespace(p1)), p1.v)
    ELSE ArgumentRead([p1 EXCEPT !.v = 0], p1.v)

\* circuit_read_single_operation after the gate name was read.
GateNameRead(p1) ==
    IF p1.err THEN p1
    ELSE IF GATE_TAKES_PARENS_ARGUMENT \in Flags(p1.v)
    THEN ArgumentRead(read_parens_argument(read_past_within_line_whitespace(p1)), p1.v)
    ELSE ArgumentRead([p1 EXCEPT !.v = 0], p1.v)

\* circuit_read_single_operation, entered with the lead character in p.c.
circuit_read_single_operation(p) == GateNameRead(read_gate_name(p))

READ_AS_LITTLE_AS_POSSIBLE == "READ_AS_LITTLE_AS_POSSIBLE"
READ_UNTIL_END_OF_BLOCK == "READ_UNTIL_END_OF_BLOCK"
READ_UNTIL_END_OF_FILE == "READ_UNTIL_END_OF_FILE"

\* The last operation absorbs the one after it (the fusion branch).
FuseLastTwo(ops) ==
    [SubSeq(ops, 1, Len(ops) - 1) EXCEPT ![Len(ops) - 1].length = @ + ops[Len(ops)].length]

\* ExtraCopies forgetting that the body itself is the first copy.
ExtraCopiesOffByOne(rep_count) == rep_count

\* The number of extra copies of a block's body that REPEAT appends.
ExtraCopies(rep_count) == rep_count - 1

\* parser_fuses comparing the gates only.
parser_fuses_same_gate(can_fuse_flag, ops) ==
    can_fuse_flag /\ ops[Len(ops) - 1].gate = ops[Len(ops)].gate

\* Whether the parser merges the operation just read into the one before it.
parser_fuses(can_fuse_flag, ops) ==
    can_fuse_flag /\ can_fuse(ops[Len(ops) - 1], ops[Len(ops)])

\* circuit_read_operations: one pass of the do-while loop per unfolding;
\* can_fuse_flag is the local can_fuse.
RECURSIVE circuit_read_operations(_, _, _)

\* LoopAgain going round whatever the read condition.
LoopAgainAlways(p, read_condition, can_fuse_flag) ==
    circuit_read_operations(p, read_condition, can_fuse_flag)

\* } while (read_condition != READ_AS_LITTLE_AS_POSSIBLE)
LoopAgain(p, read_condition, can_fuse_flag) ==
    IF read_condition = READ_AS_LITTLE_AS_POSSIBLE THEN p
    ELSE circuit_read_operations(p, read_condition, can_fuse_flag)

\* The REPEAT branch after the block's body was read.
BlockRead(p4, ops_start, num_measure_start, rep_count, read_condition) ==
    IF p4.err THEN p4
    ELSE LoopAgain(
             [p4 EXCEPT
                 !.cir.num_measurements = @ + (@ - num_measure_start) * (rep_count - 1),
                 !.cir.operations =
                     @ \o Replicate(SubSeq(@, ops_start + 1, Len(@)), ExtraCopies(rep_count))],
             read_condition, FALSE)

\* The REPEAT branch after the count and the operation were popped.
RepeatPopped(p3, rep_count, read_condition) ==
    IF rep_count = 0 THEN Throw(p3)
    ELSE BlockRead(circuit_read_operations(p3, READ_UNTIL_END_OF_BLOCK, FALSE),
                   Len(p3.cir.operations), p3.cir.num_measurements, rep_count,
                   read_condition)

\* PopRepeat popping the operation and leaving the count in the arena.
PopRepeatKeepsCount(p) ==
    [p EXCEPT !.cir.operations = SubSeq(@, 1, Len(@) - 1)]

\* circuit.jagged_data.pop_back(); ops.pop_back()
PopRepeat(p) ==
    [p EXCEPT !.cir.jagged_data = SubSeq(@, 1, Len(@) - 1),
              !.cir.operations = SubSeq(@, 1, Len(@) - 1)]

\* The loop body after circuit_read_single_operation.
OperationRead(p2, read_condition, can_fuse_flag) ==
    IF p2.err THEN p2
    ELSE IF p2.cir.operations[Len(p2.cir.operations)].gate = "REPEAT"
    THEN IF p2.cir.operations[Len(p2.cir.operations)].length # 1 THEN Throw(p2)
         ELSE RepeatPopped(PopRepeat(p2), p2.cir.jagged_data[Len(p2.cir.jagged_data)].lo,
                           read_condition)
    ELSE IF parser_fuses(can_fuse_flag, p2.cir.operations)
    THEN LoopAgain([p2 EXCEPT !.cir.operations = FuseLastTwo(@)], read_condition, TRUE)
    ELSE LoopAgain(p2, read_condition, TRUE)

\* DeadSpaceRead taking the end of the input for the end of an open block.
DeadSpaceReadEndsBlockAtEof(p1, read_condition, can_fuse_flag) ==
    IF p1.c = EOF THEN p1
    ELSE IF p1.c = "}"
    THEN IF read_condition # READ_UNTIL_END_OF_BLOCK THEN Throw(p1) ELSE p1
    ELSE OperationRead(circuit_read_single_operation(p1), read_condition, can_fuse_flag)

\* The loop body after read_past_dead_space_between_commands.
DeadSpaceRead(p1, read_condition, can_fuse_flag) ==
    IF p1.c = EOF
    THEN IF read_condition = READ_UNTIL_END_OF_BLOCK THEN Throw(p1) ELSE p1
    ELSE IF p1.c = "}"
    THEN IF read_condition # READ_UNTIL_END_OF_BLOCK THEN Throw(p1) ELSE p1
    ELSE OperationRead(circuit_read_single_operation(p1), read_condition, can_fuse_flag)

circuit_read_operations(p, read_condition, can_fuse_flag) ==
    DeadSpaceRead(read_past_dead_space_between_commands(ReadChar(p)), read_condition,
                  can_fuse_flag)

\* What append_from_text leaves behind: the circuit, whether the call
\* returned (ok) or threw, and the returned flag.
ParseEnded(c, p) ==
    [c |-> p.cir, ok |-> ~p.err, grew |-> Len(p.cir.operations) > Len(c.operations)]

\* Circuit::append_from_text
append_from_text(c, text) ==
    ParseEnded(c, circuit_read_operations(StartParse(c, text), READ_UNTIL_END_OF_FILE, FALSE))

\* Circuit::from_text
from_text(text) == append_from_text(EmptyCircuit, text)

\* A FILE open for reading: its characters and the number k of them that
\* getc has handed out.
OpenedFile(text) == [text |-> text, k |-> 0]

\* The parse that append_from_file starts: the source callback is getc on
\* the file, which goes on from the file's position.
StartFileParse(c, file) ==
    [text |-> file.text, k |-> file.k, c |-> EOF, cir |-> c, v |-> 0, err |-> FALSE]

\* What append_from_file leaves behind: the circuit, the file at its new
\* position, whether the call returned (ok) or threw, and the returned flag.
FileParseEnded(c, p) ==
    [c |-> p.cir, file |-> [text |-> p.text, k |-> p.k], ok |-> ~p.err,
     grew |-> Len(p.cir.operations) > Len(c.operations)]

\* Circuit::append_from_file
append_from_file(c, file, stop_asap) ==
    FileParseEnded(c, circuit_read_operations(
                          StartFileParse(c, file),
                          IF stop_asap THEN READ_AS_LITTLE_AS_POSSIBLE
                          ELSE READ_UNTIL_END_OF_FILE,
                          FALSE))

\* -------------------------------------------------------------- rendering

RECURSIVE NatChars(_)
NatChars(n) ==
    IF n < 10 THEN <<DigitSeq[n + 1]>> ELSE NatChars(n \div 10) \o <<DigitSeq[(n % 10) + 1]>>

RECURSIVE StripZeros(_)
StripZeros(ds) ==
    IF ds # <<>> /\ ds[Len(ds)] = "0" THEN StripZeros(SubSeq(ds, 1, Len(ds) - 1)) ELSE ds

\* out << arg for an arg in thousandths: as an integer when integral,
\* else in the stream's default notation.
ArgChars(v) ==
    IF v % 1000 = 0 THEN NatChars(v \div 1000)
    ELSE NatChars(v \div 1000) \o <<".">> \o
         StripZeros(<<DigitSeq[((v \div 100) % 10) + 1], DigitSeq[((v \div 10) % 10) + 1],
                      DigitSeq[(v % 10) + 1]>>)

\* One target of an operation of a gate with `flags`, after the space.
TargetChars(flags, t) ==
    IF GATE_PRODUCES_RESULTS \in flags
    THEN (IF AndW(t, TARGET_INVERTED_MASK) # ZeroW THEN <<"!">> ELSE <<>>) \o
         NatChars((t.hi % 128) * Pow24 + t.lo)
    ELSE IF GATE_TARGETS_PAULI_STRING \in flags
    THEN LET x == IF AndW(t, TARGET_PAULI_X_MASK) # ZeroW THEN 1 ELSE 0
             z == IF AndW(t, TARGET_PAULI_Z_MASK) # ZeroW THEN 1 ELSE 0
         IN <<(<<"I", "X", "Z", "Y">>)[x + z * 2 + 1]>> \o NatChars(QubitOf(t))
    ELSE NatChars(QubitOf(t)) \o
         (IF AndW(t, TARGET_RECORD_MASK) # ZeroW
          THEN <<"@", "-">> \o NatChars(RecordOf(t)) ELSE <<>>)

RECURSIVE TargetsChars(_, _)
TargetsChars(flags, ts) ==
    IF ts = <<>> THEN <<>>
    ELSE <<" ">> \o TargetChars(flags, Head(ts)) \o TargetsChars(flags, Tail(ts))

\* Whether the renderer writes the parens argument of an operation.
prints_arg(arg) == arg # 0

\* operator<<(std::ostream&, const Operation&)
OperationChars(c, op) ==
    GATE_DATA[op.gate].name \o
    (IF prints_arg(op.arg) THEN <<"(">> \o ArgChars(op.arg) \o <<")">> ELSE <<>>) \o
    TargetsChars(Flags(op.gate), Targets(c, op))

RECURSIVE OperationsChars(_, _)
OperationsChars(c, k) ==
    IF k > Len(c.operations) THEN <<>>
    ELSE <<"\n">> \o OperationChars(c, c.operations[k]) \o OperationsChars(c, k + 1)

\* operator<<(std::ostream&, const Circuit&), which Circuit::str returns.
str(c) ==
    <<"#", " ", "C", "i", "r", "c", "u", "i", "t", " ", "[",
      "n", "u", "m", "_", "q", "u", "b", "i", "t", "s", "=">> \o NatChars(c.num_qubits) \o
    <<",", " ", "n", "u", "m", "_", "m", "e", "a", "s", "u", "r", "e", "m", "e", "n", "t",
      "s", "=">> \o NatChars(c.num_measurements) \o <<"]">> \o OperationsChars(c, 1)

\* --------------------------------------------------------------- equality

\* An operation as operator== reads it: gate id, arg and the target words.
OpView(c, op) == [gate |-> op.gate, arg |-> op.arg, targets |-> Targets(c, op)]

OpViews(c) == [k \in 1..Len(c.operations) |-> OpView(c, c.operations[k])]

\* Circuit::operator==
CircuitEq(c, d) ==
    /\ c.num_qubits = d.num_qubits
    /\ c.num_measurements = d.num_measurements
    /\ OpViews(c) = OpViews(d)

\* --------------------------------------------------------------- resolver

\* The lookup `resolve` of list_detectors_and_observables: st.hist maps a
\* qubit to the list of its measurement indices so far; the result carries
\* the resolved indices, or ok = FALSE when a target throws.
\* resolve counting the lookback over the measurements of all qubits.
RECURSIVE resolve_any_qubit(_, _, _)
resolve_any_qubit(hist, ts, acc) ==
    IF ts = <<>> THEN [ok |-> TRUE, indices |-> acc]
    ELSE LET dt == RecordOf(Head(ts))
             m == Cardinality(UNION {{hist[q][i] : i \in 1..Len(hist[q])} : q \in DOMAIN hist})
         IN IF dt = 0 THEN [ok |-> FALSE, indices |-> acc]
            ELSE IF dt > m THEN [ok |-> FALSE, indices |-> acc]
            ELSE resolve_any_qubit(hist, Tail(ts), Append(acc, m - dt))

\* resolve reading the lookback from the oldest measurement of the qubit.
RECURSIVE resolve_from_oldest(_, _, _)
resolve_from_oldest(hist, ts, acc) ==
    IF ts = <<>> THEN [ok |-> TRUE, indices |-> acc]
    ELSE LET q == QubitOf(Head(ts))
             dt == RecordOf(Head(ts))
             v == IF q \in DOMAIN hist THEN hist[q] ELSE <<>>
         IN IF dt = 0 THEN [ok |-> FALSE, indices |-> acc]
            ELSE IF dt > Len(v) THEN [ok |-> FALSE, indices |-> acc]
            ELSE resolve_from_oldest(hist, Tail(ts), Append(acc, v[dt]))

\* resolve without its test for an unspecified lookback.
RECURSIVE resolve_zero_lookback(_, _, _)
resolve_zero_lookback(hist, ts, acc) ==
    IF ts = <<>> THEN [ok |-> TRUE, indices |-> acc]
    ELSE LET q == QubitOf(Head(ts))
             dt == RecordOf(Head(ts))
             v == IF q \in DOMAIN hist THEN hist[q] ELSE <<>>
         IN IF dt > Len(v) THEN [ok |-> FALSE, indices |-> acc]
            ELSE resolve_zero_lookback(hist, Tail(ts),
                     Append(acc, IF dt = 0 THEN 0 ELSE v[Len(v) - dt + 1]))

RECURSIVE resolve(_, _, _)
resolve(hist, ts, acc) ==
    IF ts = <<>> THEN [ok |-> TRUE, indices |-> acc]
    ELSE LET q == QubitOf(Head(ts))
             dt == RecordOf(Head(ts))
             v == IF q \in DOMAIN hist THEN hist[q] ELSE <<>>
         IN IF dt = 0 THEN [ok |-> FALSE, indices |-> acc]
            ELSE IF dt > Len(v) THEN [ok |-> FALSE, indices |-> acc]
            ELSE resolve(hist, Tail(ts), Append(acc, v[Len(v) - dt + 1]))

\* qubit_measure_indices[target & TARGET_QUBIT_MASK].push_back(m++) per target.
RECURSIVE RecordMeasurements(_, _)
RecordMeasurements(st, ts) ==
    IF ts = <<>> THEN st
    ELSE LET q == QubitOf(Head(ts))
             v == IF q \in DOMAIN st.hist THEN st.hist[q] ELSE <<>>
         IN RecordMeasurements(
                [st EXCEPT !.hist = [x \in DOMAIN @ \cup {q} |->
                                        IF x = q THEN Append(v, st.m) ELSE @[x]],
                           !.m = @ + 1],
                Tail(ts))

\* MeasurementSet::operator*= on the indices: `other` is appended.
MeasurementSetTimesEq(indices, other) == indices \o other

\* while (observables.size() <= obs) observables.push_back({})
GrowTo(observables, obs) ==
    [k \in 1..Max(Len(observables), obs + 1) |->
        IF k <= Len(observables) THEN observables[k] ELSE <<>>]

\* The loop of list_detectors_and_observables over operations k, k+1, ...
RECURSIVE ListLoop(_, _, _)
ListLoop(c, k, st) ==
    IF k > Len(c.operations) \/ ~st.ok THEN st
    ELSE LET op == c.operations[k]
             ts == Targets(c, op)
             r == resolve(st.hist, ts, <<>>)
             obs == op.arg \div 1000
         IN ListLoop(c, k + 1,
                IF GATE_PRODUCES_RESULTS \in Flags(op.gate) THEN RecordMeasurements(st, ts)
                ELSE IF op.gate = "DETECTOR"
                THEN IF ~r.ok THEN [st EXCEPT !.ok = FALSE]
                     ELSE [st EXCEPT !.detectors = Append(@, r.indices)]
                ELSE IF op.gate = "OBSERVABLE_INCLUDE"
                THEN IF op.arg % 1000 # 0 THEN [st EXCEPT !.ok = FALSE]
                     ELSE IF ~r.ok THEN [st EXCEPT !.ok = FALSE]
                     ELSE [st EXCEPT !.observables =
                              [GrowTo(@, obs) EXCEPT
                                  ![obs + 1] = MeasurementSetTimesEq(@, r.indices)]]
                ELSE st)

\* Circuit::list_detectors_and_observables
list_detectors_and_observables(c) ==
    LET st == ListLoop(c, 1, [hist |-> <<>>, m |-> 0, detectors |-> <<>>,
                              observables |-> <<>>, ok |-> TRUE])
    IN [ok |-> st.ok, detectors |-> st.detectors, observables |-> st.observables,
        m |-> st.m]

\* ----------------------------------------------------------------- inputs

\* The instruction lines the programs are made of, by name.
LINES ==
    [H0 |-> <<"H", " ", "0", "\n">>,
     H1 |-> <<"H", " ", "1", "\n">>,
     M0 |-> <<"M", " ", "0", "\n">>,
     Mn1 |-> <<"M", " ", "!", "1", "\n">>,
     CX01 |-> <<"C", "N", "O", "T", " ", "0", " ", "1", "\n">>,
     D01 |-> <<"D", "E", "T", "E", "C", "T", "O", "R", " ", "0", "@", "-", "1", "\n">>,
     OBS0 |->
         <<"O", "B", "S", "E", "R", "V", "A", "B", "L", "E", "_", "I", "N", "C",
           "L", "U", "D", "E", "(", "0", ")", " ", "0", "@", "-", "1", "\n">>,
     OBS2 |->
         <<"O", "B", "S", "E", "R", "V", "A", "B", "L", "E", "_", "I", "N", "C",
           "L", "U", "D", "E", "(", "2", ")", " ", "1", "@", "-", "1", "\n">>,
     XE |-> <<"X", "_", "E", "R", "R", "O", "R", "(", "0", ".", "5", ")", " ", "2", "\n">>,
     XE25 |->
         <<"X", "_", "E", "R", "R", "O", "R", "(", "0", ".", "2", "5", ")", " ", "2", "\n">>,
     M1 |-> <<"M", " ", "1", "\n">>,
     M012 |-> <<"M", " ", "0", " ", "1", " ", "2", "\n">>,
     D0121 |->
         <<"D", "E", "T", "E", "C", "T", "O", "R", " ", "0", "@", "-", "1", " ",
           "2", "@", "-", "1", "\n">>,
     OBS3 |->
         <<"O", "B", "S", "E", "R", "V", "A", "B", "L", "E", "_", "I", "N", "C",
           "L", "U", "D", "E", "(", "3", ")", " ", "1", "@", "-", "1", "\n">>,
     OBS2a |->
         <<"O", "B", "S", "E", "R", "V", "A", "B", "L", "E", "_", "I", "N", "C",
           "L", "U", "D", "E", "(", "2", ")", " ", "0", "@", "-", "2", " ", "1",
           "@", "-", "1", "\n">>,
     OBS2b |->
         <<"O", "B", "S", "E", "R", "V", "A", "B", "L", "E", "_", "I", "N", "C",
           "L", "U", "D", "E", "(", "2", ")", " ", "0", "@", "-", "2", "\n">>,
     OBS2c |->
         <<"O", "B", "S", "E", "R", "V", "A", "B", "L", "E", "_", "I", "N", "C",
           "L", "U", "D", "E", "(", "2", ")", " ", "0", "@", "-", "1", " ", "1",
           "@", "-", "1", "\n">>,
     OBS2d |->
         <<"O", "B", "S", "E", "R", "V", "A", "B", "L", "E", "_", "I", "N", "C",
           "L", "U", "D", "E", "(", "2", ")", " ", "0", "@", "-", "1", "\n">>,
     R2 |-> <<"R", "E", "P", "E", "A", "T", " ", "2", " ", "{", "\n">>,
     R3 |-> <<"R", "E", "P", "E", "A", "T", " ", "3", " ", "{", "\n">>,
     END |-> <<"}", "\n">>,
     iM0 |-> <<" ", " ", "M", " ", "0", "\n">>,
     iD01 |->
         <<" ", " ", "D", "E", "T", "E", "C", "T", "O", "R", " ", "0", "@", "-",
           "1", "\n">>,
     CXrec |-> <<"C", "N", "O", "T", " ", "0", "@", "-", "1", " ", "0", "\n">>,
     CX0123 |-> <<"C", "N", "O", "T", " ", "0", " ", "1", " ", "2", " ", "3", "\n">>,
     D02 |-> <<"D", "E", "T", "E", "C", "T", "O", "R", " ", "0", "@", "-", "2", "\n">>,
     X0 |-> <<"X", " ", "0", "\n">>,
     X1 |-> <<"X", " ", "1", "\n">>,
     H2c |-> <<"H", " ", "2", " ", "#", " ", "y", "\n">>,
     E |->
         <<"E", "(", "0", ".", "1", "2", "5", ")", " ", "X", "0", " ", "Y", "1",
           " ", "Z", "2", "\n">>,
     Hcb |-> <<"H", " ", "0", " ", "#", " ", "{", "\n">>,
     LBRACE |-> <<"{", "\n">>,
     NOTE |-> <<"#", " ", "n", "o", "t", "e", "\n">>,
     BLANK |-> <<"\n">>,
     Hx |-> <<"H", " ", "x", "\n">>,
     M1x |-> <<"M", " ", "1", " ", "x", "\n">>,
     Hsep |-> <<"H", " ", "0", ",", "1", "\n">>,
     CXodd |-> <<"C", "N", "O", "T", " ", "0", " ", "1", " ", "2", "\n">>,
     CXself |-> <<"C", "N", "O", "T", " ", "0", " ", "0", "\n">>,
     SWself |-> <<"S", "W", "A", "P", " ", "1", " ", "1", "\n">>,
     Rnobrace |-> <<"R", "E", "P", "E", "A", "T", " ", "2", "\n">>,
     Hbrace |-> <<"H", " ", "0", " ", "{", "\n">>,
     R0 |->
         <<"R", "E", "P", "E", "A", "T", " ", "0", " ", "{", "\n", "H", " ", "0",
           "\n", "}", "\n">>,
     R12 |->
         <<"R", "E", "P", "E", "A", "T", " ", "1", " ", "2", " ", "{", "\n", "H",
           " ", "0", "\n", "}", "\n">>,
     Rnone |->
         <<"R", "E", "P", "E", "A", "T", " ", "{", "\n", "H", " ", "0", "\n", "}",
           "\n">>,
     Hp5 |-> <<"H", "(", "0", ".", "5", ")", " ", "0", "\n">>,
     Hp0 |-> <<"H", "(", "0", ")", " ", "0", "\n">>,
     Mp0 |-> <<"M", "(", "0", ")", " ", "0", "\n">>,
     D00 |-> <<"D", "E", "T", "E", "C", "T", "O", "R", " ", "0", "@", "-", "0", "\n">>,
     Dplain |-> <<"D", "E", "T", "E", "C", "T", "O", "R", " ", "0", "\n">>,
     D08 |-> <<"D", "E", "T", "E", "C", "T", "O", "R", " ", "0", "@", "-", "8", "\n">>,
     EX0 |-> <<"E", "(", "0", ".", "5", ")", " ", "X", "0", "\n">>,
     Ebare |-> <<"E", "(", "0", ".", "5", ")", " ", "0", "\n">>,
     H1eof |-> <<"H", " ", "1">>,
     ENDc |-> <<"}", " ", "#", " ", "e", "n", "d", "\n">>,
     NOPE |-> <<"N", "O", "P", "E", " ", "0", "\n">>,
     STRAY |-> <<"}", "\n">>,
     XEneg |-> <<"X", "_", "E", "R", "R", "O", "R", "(", "-", "1", ")", " ", "0", "\n">>,
     XEnone |-> <<"X", "_", "E", "R", "R", "O", "R", " ", "0", "\n">>]

RECURSIVE TextOfLines(_)
TextOfLines(ids) == IF ids = <<>> THEN <<>> ELSE LINES[Head(ids)] \o TextOfLines(Tail(ids))

\* Largest number of lines of a generated program or block body.
MaxLines == 2
\* Largest repetition count of a generated REPEAT block.
MaxRepeat == 2

GoodLines == {"H0", "H1", "M0", "Mn1", "CX01", "D01", "OBS0", "OBS2", "XE"}

BadLines == {"Hx", "Hsep", "CXodd", "CXself", "SWself", "Rnobrace", "Hbrace", "R0", "R12",
             "Rnone", "Hp5", "Hp0", "Mp0", "D00", "Dplain", "NOPE", "STRAY", "XEneg",
             "XEnone"}

LineSeqs(n) == UNION {[1..m -> GoodLines] : m \in 0..n}

\* A program is a text with its make-up kept: plain lines; a REPEAT block
\* of k copies of a body; lines followed by one failing line.
PlainProgram(ls) == [kind |-> "plain", lines |-> ls, k |-> 1, bad |-> "none"]
RepeatProgram(k, ls) == [kind |-> "repeat", lines |-> ls, k |-> k, bad |-> "none"]
BadProgram(ls, b) == [kind |-> "bad", lines |-> ls, k |-> 1, bad |-> b]

ScenarioD == PlainProgram(<<"M0", "M1", "OBS2a", "OBS2b">>)
ScenarioDLast == PlainProgram(<<"M0", "M1", "OBS2c", "OBS2d">>)
ScenarioB == PlainProgram(<<"R3", "iM0", "iD01", "END">>)
Property7 == PlainProgram(<<"M012", "D0121", "OBS3">>)
Nested == PlainProgram(<<"R2", "R2", "M0", "END", "H1", "END">>)
Feedback == PlainProgram(<<"M0", "CXrec">>)
Lookback2 == PlainProgram(<<"M0", "H1", "M0", "D02">>)
Commented == PlainProgram(<<"NOTE", "BLANK", "H2c", "X0", "X1", "CX0123", "E">>)
Unterminated == PlainProgram(<<"R2", "H1">>)
NestedUnterminated == PlainProgram(<<"R2", "R2", "M0", "END">>)
StrayClose == PlainProgram(<<"H0", "END">>)
ClosedTwice == PlainProgram(<<"R2", "H1", "END", "END">>)
BraceOnNextLine == PlainProgram(<<"Rnobrace", "LBRACE", "H0", "END">>)
BlockOnOtherGate == PlainProgram(<<"Hbrace", "H1", "END">>)
BraceInComment == PlainProgram(<<"Hcb", "R2", "H1", "END">>)
Split == PlainProgram(<<"H0", "X0", "H1">>)
Run3 == PlainProgram(<<"H0", "H1", "H0", "XE", "XE25", "D01", "D01">>)

FixedPrograms ==
    {ScenarioD, ScenarioDLast, ScenarioB, Property7, Nested, Feedback, Lookback2, Commented,
     Split, Run3, Unterminated, NestedUnterminated, StrayClose, ClosedTwice,
     BraceOnNextLine, BlockOnOtherGate, BraceInComment}

Programs ==
    {PlainProgram(ls) : ls \in LineSeqs(MaxLines)} \cup
    {RepeatProgram(k, ls) : k \in 0..MaxRepeat, ls \in LineSeqs(MaxLines)} \cup
    {BadProgram(ls, b) : ls \in LineSeqs(MaxLines - 1), b \in BadLines} \cup
    FixedPrograms

RepeatHeader(k) == <<"R", "E", "P", "E", "A", "T", " ">> \o NatChars(k) \o <<" ", "{", "\n">>

TextOf(prog) ==
    CASE prog.kind = "plain" -> TextOfLines(prog.lines)
      [] prog.kind = "repeat" ->
            RepeatHeader(prog.k) \o TextOfLines(prog.lines) \o <<"}", "\n">>
      [] prog.kind = "bad" -> TextOfLines(prog.lines) \o LINES[prog.bad]

\* The body of a REPEAT program written out k times in a row.
WrittenOut(prog) == Replicate(TextOfLines(prog.lines), prog.k)

\* The programs of the builder machine.
MachinePrograms ==
    {PlainProgram(<<"M0">>), RepeatProgram(2, <<"H1">>), Feedback,
     BadProgram(<<"H0">>, "CXself"), BadProgram(<<>>, "Hp0"), BadProgram(<<>>, "Hp5")}

\* The calls of append_op the machine makes: gate name, targets, arg.
OpInput(g, vec, arg) == [gate |-> g, vec |-> vec, arg |-> arg]

OpInputs ==
    {OpInput("M", <<Q(0)>>, 0),
     OpInput("H", <<Q(1)>>, 0),
     OpInput("H", <<Q(0)>>, 500),
     OpInput("CNOT", <<Word(16, 0), Q(0)>>, 0),
     OpInput("CNOT", <<Q(1), Q(1)>>, 0),
     OpInput("NOPE", <<Q(0)>>, 0)}

\* ---------------------------------------------------------- state machine

\* Circuit a is the one the builder operations are called on; circuit b is
\* the second circuit of the operations that take one, parsed from one text.
Names == {"a", "b"}
Built == {"a"}

NoCall == [op |-> "none", on |-> "none", status |-> "ok"]

Status(ok) == IF ok THEN "ok" ELSE "thrown"

Init ==
    /\ cir = [x \in Names |-> EmptyCircuit]
    /\ last = NoCall

\* x.append_op(gate, vec, arg, allow_fusing)
AppendOp(x, inp, allow_fusing) ==
    LET r == append_op(cir[x], inp.gate, inp.vec, inp.arg, allow_fusing) IN
    /\ cir' = [cir EXCEPT ![x] = r.c]
    /\ last' = [op |-> "append_op", on |-> x, status |-> Status(r.ok),
                allow_fusing |-> allow_fusing, inp |-> inp,
                fused |-> r.ok /\ fuses_with_back(cir[x], inp.gate, inp.arg, allow_fusing)]

\* x.append_from_text(text of prog)
AppendFromText(x, prog) ==
    LET r == append_from_text(cir[x], TextOf(prog)) IN
    /\ cir' = [cir EXCEPT ![x] = r.c]
    /\ last' = [op |-> "append_from_text", on |-> x, status |-> Status(r.ok),
                prog |-> prog]

\* x.append_operation(y.operations[k]), on an operation of the other circuit.
AppendOperation(x, y, k) ==
    /\ x # y
    /\ k \in 1..Len(cir[y].operations)
    /\ cir' = [cir EXCEPT ![x] = append_operation(cir[x], cir[y], cir[y].operations[k])]
    /\ last' = [op |-> "append_operation", on |-> x, status |-> "ok"]

\* x.append_circuit(y, repetitions)
AppendCircuit(x, y, repetitions, stale) ==
    LET r == append_circuit(cir[x], cir[y], x = y, repetitions, stale) IN
    /\ cir' = [cir EXCEPT ![x] = r.c]
    /\ last' = [op |-> "append_circuit", on |-> x, status |-> r.status,
                repetitions |-> repetitions]

\* x += y
PlusEq(x, y) ==
    LET r == plus_eq(cir[x], cir[y], x = y) IN
    /\ cir' = [cir EXCEPT ![x] = r.c]
    /\ last' = [op |-> "plus_eq", on |-> x, status |-> r.status, other |-> y]

\* x *= repetitions
TimesEq(x, repetitions) ==
    LET r == times_eq(cir[x], repetitions) IN
    /\ cir' = [cir EXCEPT ![x] = r.c]
    /\ last' = [op |-> "times_eq", on |-> x, status |-> r.status,
                repetitions |-> repetitions, before |-> Len(cir[x].operations)]

\* x.clear()
Clear(x) ==
    /\ cir[x] # EmptyCircuit
    /\ cir' = [cir EXCEPT ![x] = clear(cir[x])]
    /\ last' = [op |-> "clear", on |-> x, status |-> "ok"]

\* A parse that threw leaves its circuit in a partial state which the caller
\* is expected to discard, and a call that ran into undefined behaviour has
\* no defined continuation.  A throwing append_op has changed nothing.
Usable == last.status = "ok" \/ last.op = "append_op"
MustDiscard == last.status = "thrown" /\ last.op = "append_from_text"

Fits(c) == Len(c.operations) <= MaxOps /\ Len(c.jagged_data) <= MaxArena

Next ==
    \/ \E x \in Built, inp \in OpInputs, f \in BOOLEAN :
          Usable /\ AppendOp(x, inp, f) /\ Fits(cir'[x])
    \/ \E x \in Names, prog \in MachinePrograms :
          /\ Usable /\ (x \in Built \/ cir[x] = EmptyCircuit)
          /\ AppendFromText(x, prog) /\ Fits(cir'[x])
    \/ \E x \in Built, y \in Names, k \in 1..MaxOps :
          Usable /\ AppendOperation(x, y, k) /\ Fits(cir'[x])
    \/ \E x \in Built, y \in Names, r \in 0..MaxReps, stale \in BOOLEAN :
          Usable /\ AppendCircuit(x, y, r, stale) /\ Fits(cir'[x])
    \/ \E x \in Built, y \in Names : Usable /\ PlusEq(x, y) /\ Fits(cir'[x])
    \/ \E x \in Built, r \in 0..MaxReps : Usable /\ TimesEq(x, r) /\ Fits(cir'[x])
    \/ \E x \in Names : (Usable \/ (MustDiscard /\ last.on = x)) /\ Clear(x)

Spec == Init /\ [][Next]_vars

\* ------------------------------------------------------- the text machine

\* Circuit::from_text(str(a)) into b: a circuit is returned unless the
\* parse threw.
RoundTrip ==
    LET r == from_text(str(cir["a"])) IN
    /\ last.op = "append_from_text" /\ last.status = "ok"
    /\ cir' = [cir EXCEPT !["b"] = IF r.ok THEN r.c ELSE @]
    /\ last' = [op |-> "round_trip", on |-> "b", status |-> Status(r.ok),
                prog |-> last.prog]

\* Circuit::from_text into b of the body of a's REPEAT program written out.
FromWrittenOut ==
    LET r == from_text(WrittenOut(last.prog)) IN
    /\ last.op = "append_from_text" /\ last.prog.kind = "repeat"
    /\ cir' = [cir EXCEPT !["b"] = IF r.ok THEN r.c ELSE @]
    /\ last' = [op |-> "written_out", on |-> "b", status |-> Status(r.ok),
                repeat_status |-> last.status, prog |-> last.prog]

\* a.list_detectors_and_observables()
ListDetectorsAndObservables ==
    LET r == list_detectors_and_observables(cir["a"]) IN
    /\ last.op = "append_from_text" /\ last.status = "ok"
    /\ UNCHANGED cir
    /\ last' = [op |-> "list_detectors_and_observables", on |-> "a",
                status |-> Status(r.ok),
                detectors |-> IF r.ok THEN r.detectors ELSE <<>>,
                observables |-> IF r.ok THEN r.observables ELSE <<>>,
                prog |-> last.prog]

\* One text is parsed into the empty circuit a, and is then rendered and
\* parsed again, compared with its REPEAT block written out, or resolved.
NextText ==
    \/ \E prog \in Programs : last.op = "none" /\ AppendFromText("a", prog)
    \/ RoundTrip
    \/ FromWrittenOut
    \/ ListDetectorsAndObservables

SpecText == Init /\ [][NextText]_vars

\* ---------------------------------------------------- the target machine

\* The texts and the append_op calls of the target machine: targets with
\* and without the flag bits their gate permits or requires.
TargetPrograms ==
    {PlainProgram(<<"Mn1">>), PlainProgram(<<"D08">>), PlainProgram(<<"EX0">>),
     BadProgram(<<>>, "Ebare"), BadProgram(<<>>, "Dplain")}

TargetInputs ==
    {OpInput("M", <<Q(0)>>, 0),
     OpInput("M", <<Word(1, 0)>>, 0),
     OpInput("H", <<Word(128, 0)>>, 0),
     OpInput("H", <<Q(1), Word(16, 0)>>, 0),
     OpInput("DETECTOR", <<Q(0)>>, 0),
     OpInput("DETECTOR", <<Word(16, 0)>>, 0),
     OpInput("DETECTOR", <<Word(144, 0)>>, 0),
     OpInput("OBSERVABLE_INCLUDE", <<Word(16, 0)>>, 1000),
     OpInput("E", <<Q(0)>>, 500),
     OpInput("E", <<Word(3, 1)>>, 500)}

\* a.list_detectors_and_observables(), on any circuit built so far.
Resolve ==
    LET r == list_detectors_and_observables(cir["a"]) IN
    /\ UNCHANGED cir
    /\ last' = [op |-> "resolve", on |-> "a", status |-> Status(r.ok),
                detectors |-> IF r.ok THEN r.detectors ELSE <<>>,
                observables |-> IF r.ok THEN r.observables ELSE <<>>]

\* Circuit a is built by parses and append_op calls on all kinds of
\* targets, and resolved.
NextTargets ==
    \/ \E inp \in TargetInputs :
          ~MustDiscard /\ AppendOp("a", inp, TRUE) /\ Fits(cir'["a"])
    \/ \E prog \in TargetPrograms :
          ~MustDiscard /\ AppendFromText("a", prog) /\ Fits(cir'["a"])
    \/ ~MustDiscard /\ last.op # "resolve" /\ Resolve
    \/ Clear("a")

SpecTargets == Init /\ [][NextTargets]_vars

\* ---------------------------------------------------- the stream machine

\* The files of the stream machine: the plain programs, blocks among other
\* instructions, a last line without a line ending, a failing line.
BlockAmongLines == PlainProgram(<<"H0", "R2", "H1", "ENDc", "H1", "H0">>)
NoLineEnding == PlainProgram(<<"NOTE", "M0", "BLANK", "H1eof">>)
TrailingNote == PlainProgram(<<"H0", "H1", "NOTE", "BLANK">>)

StreamPrograms ==
    {PlainProgram(ls) : ls \in LineSeqs(MaxLines)} \cup
    {BlockAmongLines, NoLineEnding, TrailingNote, Nested, ScenarioB, Commented,
     BraceInComment, Unterminated, StrayClose, BadProgram(<<"H0">>, "Hx")}

\* fopen of a file holding the text of prog.
OpenFile(prog) ==
    /\ last.op = "none"
    /\ UNCHANGED cir
    /\ last' = [op |-> "fopen", on |-> "a", status |-> "ok", prog |-> prog,
                file |-> OpenedFile(TextOf(prog)), grew |-> TRUE, calls |-> 0]

\* x.append_from_file(file, stop_asap) on the file of the last call, at the
\* position that call left it at.
AppendFromFile(x, stop_asap) ==
    LET r == append_from_file(cir[x], last.file, stop_asap) IN
    /\ last.op \in {"fopen", "append_from_file"}
    /\ last.status = "ok" /\ last.grew
    /\ cir' = [cir EXCEPT ![x] = r.c]
    /\ last' = [op |-> "append_from_file", on |-> x, status |-> Status(r.ok),
                prog |-> last.prog, file |-> r.file, grew |-> r.grew,
                stop_asap |-> stop_asap, calls |-> last.calls + 1]

\* A file is opened and read into circuit a, instruction by instruction or
\* all that is left of it at once, until a call returns false or throws.
NextStream ==
    \/ \E prog \in StreamPrograms : OpenFile(prog)
    \/ AppendFromFile("a", TRUE)
    \/ AppendFromFile("a", FALSE)

SpecStream == Init /\ [][NextStream]_vars

\* ---------------------------------------------------- the number machine

\* The digit strings of at most n digits over 0, 1 and 9.
RECURSIVE DigitStrings(_)
DigitStrings(n) ==
    IF n = 0 THEN {<<>>}
    ELSE DigitStrings(n - 1) \cup
         {Append(ds, d) : ds \in DigitStrings(n - 1), d \in {"0", "1", "9"}}

RECURSIVE Repeated(_, _)
Repeated(ch, n) == IF n = 0 THEN <<>> ELSE <<ch>> \o Repeated(ch, n - 1)

\* Digit strings around 2^24, 2^32 and beyond, and ones with leading zeros.
BoundaryDigits ==
    {NatChars(Pow24 - 1), NatChars(Pow24), NatChars(Pow24 + 1),
     <<"0">> \o NatChars(Pow24 - 1), <<"0", "0">> \o NatChars(Pow24),
     Repeated("0", 12) \o <<"7">>, Repeated("9", 11), Repeated("1", 9),
     <<"4", "2", "9", "4", "9", "6", "7", "2", "9", "6">>,
     <<"4", "2", "9", "4", "9", "6", "7", "2", "9", "7">>,
     <<"4", "2", "9", "4", "9", "6", "7", "3", "0", "1">>}

UintTexts ==
    {ds \o rest : ds \in (DigitStrings(MaxDigits) \ {<<>>}) \cup BoundaryDigits,
                  rest \in {<<>>, <<"@">>}}
    \cup {<<>>, <<"x">>, <<"-", "1">>}

RecordTexts ==
    {NatChars(q) \o <<"@", "-">> \o NatChars(dt) : q \in {0, 5}, dt \in 0..MaxLookback}
    \cup {<<"0", "@", "-">> \o ds :
            ds \in {<<>>, <<"x">>, <<"0", "1", "5">>, <<"0", "1", "6">>, <<"0", "0">>,
                    NatChars(Pow24 - 1), NatChars(Pow24), Repeated("9", 11)}}
    \cup {<<"3">>, <<"3", "@", "1">>, <<"@", "-", "1">>, NatChars(Pow24) \o <<"@", "-", "1">>}

\* read_uint24_t(c, read_char) entered with the first character of text in c.
EnterReadUint(text) ==
    /\ last.op = "none"
    /\ LET p == ReadChar(StartParse(EmptyCircuit, text)) IN
       last' = [op |-> "read_uint24_t", on |-> "none",
                status |-> IF p.c \in Digits THEN "reading" ELSE "thrown",
                p |-> p, result |-> ZeroW]
    /\ UNCHANGED cir

\* One pass of the do-while loop of read_uint24_t.
UintPass ==
    /\ last.op = "read_uint24_t"
    /\ last.status = "reading"
    /\ LET r == TimesTenPlus(last.result, last.p.c) IN
       last' = IF TooLarge(r) THEN [last EXCEPT !.status = "thrown", !.result = r]
               ELSE [last EXCEPT !.p = ReadChar(@), !.result = r,
                                 !.status = IF NextChar(last.p) \in Digits
                                            THEN "reading" ELSE "ok"]
    /\ UNCHANGED cir

\* read_record_target_into(c, read_char, circuit, required) on an empty circuit.
ReadRecordTarget(text, required) ==
    /\ last.op = "none"
    /\ LET p == read_record_target_into(ReadChar(StartParse(EmptyCircuit, text)), required) IN
       last' = [op |-> "read_record_target_into", on |-> "none", status |-> Status(~p.err),
                text |-> text, required |-> required, targets |-> p.cir.jagged_data]
    /\ UNCHANGED cir

NextUint ==
    \/ \E text \in UintTexts : EnterReadUint(text)
    \/ UintPass
    \/ \E text \in RecordTexts, required \in BOOLEAN : ReadRecordTarget(text, required)

SpecUint == Init /\ [][NextUint]_vars

\* ----------------------------------------------------- the reuse machine

\* The texts and the append_op calls of the reuse machine: instructions that
\* fail after some of their targets were read, and operations that fuse.
ReusePrograms ==
    {PlainProgram(<<"H0">>), PlainProgram(<<"M0">>), RepeatProgram(2, <<"H1">>),
     BadProgram(<<>>, "Hsep"), BadProgram(<<"M0">>, "M1x"), BadProgram(<<>>, "CXself"),
     BadProgram(<<>>, "Hx")}

ReuseInputs ==
    {OpInput("H", <<Q(1)>>, 0), OpInput("M", <<Q(2)>>, 0), OpInput("CNOT", <<Q(1), Q(1)>>, 0),
     OpInput("CNOT", <<Q(0)>>, 0), OpInput("H", <<Q(0)>>, 500),
     OpInput("H", <<Word(128, 0)>>, 0)}

\* Circuit a is kept by a caller that catches the parser's exception: every
\* call is made on whatever the call before left in a.
NextReuse ==
    \/ \E inp \in ReuseInputs, f \in BOOLEAN : AppendOp("a", inp, f) /\ Fits(cir'["a"])
    \/ \E prog \in ReusePrograms : AppendFromText("a", prog) /\ Fits(cir'["a"])
    \/ \E r \in 1..MaxReps : TimesEq("a", r) /\ Fits(cir'["a"])
    \/ Clear("a")

SpecReuse == Init /\ [][NextReuse]_vars

\* ------------------------------------------------------ the copy machine

\* In the source every operation holds a pointer to the arena its slice
\* views.  The copy machine keeps, for every circuit, the owner of the arena
\* each of its operations points to: a circuit's name, or "result" for the
\* value a binary operator returns.
Owners == IF "owners" \in DOMAIN last THEN last.owners ELSE [x \in Names |-> <<>>]

\* A copy that leaves the operations pointing to the arena they came with.
KeepArenas(x, owners) == owners

\* for (auto &op : operations) { op.target_data.targets.arena = &jagged_data; }
RebindArenas(x, owners) == [i \in 1..Len(owners) |-> x]

\* Circuit::Circuit(const Circuit &) and Circuit::operator=(const Circuit &):
\* the fields of `circuit`, or c itself when &circuit == this.
copy_assign(c, circuit, self) ==
    IF self THEN c
    ELSE [jagged_data |-> circuit.jagged_data, operations |-> circuit.operations,
          num_qubits |-> circuit.num_qubits, num_measurements |-> circuit.num_measurements]

\* The arena pointers of x's operations after a call that left x with n
\* operations: the operations that were there keep theirs, and the ones the
\* call made point to x's arena (lines 426, 530 and 584).
OwnersAfterCall(owners, x, n) ==
    [i \in 1..n |-> IF i <= Len(owners) THEN owners[i] ELSE x]

\* The arena pointers after the self branch of append_circuit left n
\* operations: the inserted operations are copies of the original ones.
OwnersAfterSelfCopies(owners, n) ==
    [i \in 1..n |-> owners[((i - 1) % Len(owners)) + 1]]

\* x = y, or x constructed as a copy of y.
CopyAssign(x, y) ==
    /\ cir' = [cir EXCEPT ![x] = copy_assign(cir[x], cir[y], x = y)]
    /\ last' = [op |-> "copy_assign", on |-> x, status |-> "ok", from |-> y,
                owners |-> [Owners EXCEPT
                               ![x] = IF x = y THEN @ ELSE RebindArenas(x, Owners[y])]]

\* x.append_op(gate, vec, arg) on one of the two circuits.
CopyAppendOp(x, inp) ==
    LET r == append_op(cir[x], inp.gate, inp.vec, inp.arg, TRUE) IN
    /\ cir' = [cir EXCEPT ![x] = r.c]
    /\ last' = [op |-> "append_op", on |-> x, status |-> Status(r.ok),
                owners |-> [Owners EXCEPT
                               ![x] = OwnersAfterCall(@, x, Len(r.c.operations))]]

\* x.append_from_text(text of prog) on one of the two circuits.
CopyAppendFromText(x, prog) ==
    LET r == append_from_text(cir[x], TextOf(prog)) IN
    /\ cir' = [cir EXCEPT ![x] = r.c]
    /\ last' = [op |-> "append_from_text", on |-> x, status |-> Status(r.ok),
                owners |-> [Owners EXCEPT
                               ![x] = OwnersAfterCall(@, x, Len(r.c.operations))]]

\* x *= repetitions on one of the two circuits.
CopyTimesEq(x, repetitions) ==
    LET r == times_eq(cir[x], repetitions) IN
    /\ cir' = [cir EXCEPT ![x] = r.c]
    /\ last' = [op |-> "times_eq", on |-> x, status |-> r.status,
                owners |-> [Owners EXCEPT
                               ![x] = IF r.c.operations = <<>> THEN <<>>
                                      ELSE OwnersAfterSelfCopies(@, Len(r.c.operations))]]

\* x.clear() on one of the two circuits.
CopyClear(x) ==
    /\ cir[x] # EmptyCircuit
    /\ cir' = [cir EXCEPT ![x] = clear(cir[x])]
    /\ last' = [op |-> "clear", on |-> x, status |-> "ok",
                owners |-> [Owners EXCEPT ![x] = <<>>]]

\* x + y: Circuit result = *this; result += other; return result;
Plus(x, y) ==
    LET result == plus_eq(copy_assign(EmptyCircuit, cir[x], FALSE), cir[y], FALSE).c IN
    /\ UNCHANGED cir
    /\ last' = [op |-> "plus", on |-> "result", status |-> "ok", left |-> x, right |-> y,
                result |-> result, owners |-> Owners,
                result_owners |-> OwnersAfterCall(RebindArenas("result", Owners[x]),
                                                  "result", Len(result.operations))]

\* x * repetitions: Circuit result = *this; result *= repetitions; return result;
Times(x, repetitions) ==
    LET result == times_eq(copy_assign(EmptyCircuit, cir[x], FALSE), repetitions).c IN
    /\ UNCHANGED cir
    /\ last' = [op |-> "times", on |-> "result", status |-> "ok", left |-> x,
                repetitions |-> repetitions,
                result |-> result, owners |-> Owners,
                result_owners |-> IF result.operations = <<>> THEN <<>>
                                  ELSE OwnersAfterSelfCopies(
                                           RebindArenas("result", Owners[x]),
                                           Len(result.operations))]

CopyPrograms == {PlainProgram(<<"H0">>), RepeatProgram(2, <<"H1">>)}

CopyInputs == {OpInput("M", <<Q(2)>>, 0)}

\* Largest number of operations, and largest arena length, of a circuit and
\* of a result of the copy machine.
MaxCopyOps == 2

FitsCopy(c) == Len(c.operations) <= MaxCopyOps /\ Len(c.jagged_data) <= MaxCopyOps

\* The calls are made on either circuit, whatever the other one is.
NextCopy ==
    \/ \E x, y \in Names : CopyAssign(x, y)
    \/ \E x \in Names, inp \in CopyInputs : CopyAppendOp(x, inp) /\ FitsCopy(cir'[x])
    \/ \E x \in Names, prog \in CopyPrograms :
          CopyAppendFromText(x, prog) /\ FitsCopy(cir'[x])
    \/ \E x \in Names, r \in 0..MaxReps : CopyTimesEq(x, r) /\ FitsCopy(cir'[x])
    \/ \E x \in Names : CopyClear(x)
    \/ \E x, y \in Names : Plus(x, y) /\ FitsCopy(last'.result)
    \/ \E x \in Names, r \in 0..MaxReps : Times(x, r) /\ FitsCopy(last'.result)

SpecCopy == Init /\ [][NextCopy]_vars

\* ------------------------------------------------------ the parser by steps

\* The parser taken one loop iteration at a time.  `last` holds the call in
\* progress: the source (text, k), the lookahead c, the circuit cir being
\* written, the position pc in the code, the locals of
\* circuit_read_single_operation (buf, gate, val, offset), those of the
\* target readers (acc, mask, q and the reader `then` that asked for a
\* number), and one frame per active call of circuit_read_operations,
\* the innermost last.

\* The locals of one call of circuit_read_operations; reps keeps the count
\* a REPEAT line gave, rep_count is the variable the replication loop
\* counts down.
Frame(read_condition) ==
    [read_condition |-> read_condition, can_fuse |-> FALSE, reps |-> 0, rep_count |-> 0,
     ops_start |-> 0, ops_end |-> 0, num_measure_start |-> 0]

\* An exception leaves every active call: no reader catches it.
Raise(s) == [Throw(s) EXCEPT !.pc = "thrown"]

\* circuit_read_operations returns: the outermost call to its caller, a
\* block's call into the REPEAT branch of the call around it, which takes
\* ops_end and scales the measurements the body counted.
EndCall(s) ==
    IF Len(s.frames) = 1 THEN [s EXCEPT !.pc = "returned"]
    ELSE [s EXCEPT
             !.pc = "replicate",
             !.frames = [SubSeq(s.frames, 1, Len(s.frames) - 1) EXCEPT
                            ![Len(s.frames) - 1].ops_end = Len(s.cir.operations)],
             !.cir.num_measurements =
                 @ + (@ - s.frames[Len(s.frames) - 1].num_measure_start)
                       * (s.frames[Len(s.frames) - 1].rep_count - 1)]

\* } while (read_condition != READ_AS_LITTLE_AS_POSSIBLE)
WhileCondition(s) ==
    IF s.frames[Len(s.frames)].read_condition = READ_AS_LITTLE_AS_POSSIBLE THEN EndCall(s)
    ELSE [s EXCEPT !.pc = "loop"]

\* A target reader after read_uint24_t returned s.acc.lo to it.
UintRead(s) ==
    CASE s.then = "raw" ->
            [SeeQubit(PushTarget(s, Q(s.acc.lo)), s.acc.lo) EXCEPT !.pc = "arg_check"]
      [] s.then = "block" -> [PushTarget(s, Q(s.acc.lo)) EXCEPT !.pc = "arg_check"]
      [] s.then \in {"record", "controllable"} ->
            IF s.c = "@"
            THEN IF NextChar(s) # "-" THEN Raise(Consume(SeeQubit(s, s.acc.lo)))
                 ELSE IF NextChar(Consume(s)) \notin Digits
                 THEN Raise(ReadChar(Consume(SeeQubit(s, s.acc.lo))))
                 ELSE [ReadChar(Consume(SeeQubit(s, s.acc.lo))) EXCEPT
                          !.pc = "uint", !.q = s.acc.lo, !.acc = ZeroW, !.then = "lookback"]
            ELSE IF s.then = "record" THEN Raise(SeeQubit(s, s.acc.lo))
            ELSE [PushTarget(SeeQubit(s, s.acc.lo), OrW(Q(s.acc.lo), ShiftRecord(0)))
                     EXCEPT !.pc = "arg_check"]
      [] s.then = "lookback" ->
            IF s.acc.lo = 0 THEN Raise(s)
            ELSE IF s.acc.lo >= 16 THEN Raise(s)
            ELSE [PushTarget(s, OrW(Q(s.q), ShiftRecord(s.acc.lo))) EXCEPT !.pc = "arg_check"]
      [] s.then = "result" ->
            [PushTarget(SeeQubit(s, s.acc.lo), XorW(Q(s.acc.lo), s.mask)) EXCEPT
                !.cir.num_measurements = @ + 1, !.pc = "arg_check"]
      [] s.then = "pauli" ->
            [SeeQubit(PushTarget(s, OrW(Q(s.acc.lo), s.mask)), s.acc.lo) EXCEPT
                !.pc = "arg_check"]

\* The step leaves the call at s, with the circuit it has written so far.
StepTo(s) == last' = s /\ cir' = [cir EXCEPT !["a"] = s.cir]

AtPc(pcs) == last.op = "parse" /\ last.pc \in pcs

\* A parse call begins on a fresh circuit: Circuit::from_text
\* (READ_UNTIL_END_OF_FILE) or append_from_file with stop_asap
\* (READ_AS_LITTLE_AS_POSSIBLE); one call at a time.
BeginParse(text, read_condition) ==
    /\ last.op = "parse" => last.pc \in {"returned", "thrown"}
    /\ StepTo([op |-> "parse", pc |-> "loop", text |-> text, k |-> 0, c |-> EOF,
               cir |-> EmptyCircuit, v |-> 0, err |-> FALSE, buf |-> <<>>, gate |-> "",
               val |-> 0, offset |-> 0, acc |-> ZeroW, mask |-> ZeroW, q |-> 0,
               then |-> "", frames |-> <<Frame(read_condition)>>])

\* The head of the do-while loop of circuit_read_operations: int c = read_char().
LoopStep == AtPc({"loop"}) /\ StepTo([ReadChar(last) EXCEPT !.pc = "dead_space"])

\* read_past_dead_space_between_commands: one iteration of the loop over
\* spaces, of the loop over a comment's characters, or the tests between.
DeadSpaceStep ==
    /\ AtPc({"dead_space", "dead_comment"})
    /\ StepTo(IF last.pc = "dead_space"
              THEN IF isspace(last.c) THEN ReadChar(last)
                   ELSE IF last.c = EOF \/ last.c # "#" THEN [last EXCEPT !.pc = "dispatch"]
                   ELSE [last EXCEPT !.pc = "dead_comment"]
              ELSE IF last.c # "\n" /\ last.c # EOF THEN ReadChar(last)
                   ELSE [last EXCEPT !.pc = "dead_space"])

\* circuit_read_operations after the dead space: the end of the input, the
\* end of a block, or the lead character of an operation.
AfterDeadSpace ==
    /\ AtPc({"dispatch"})
    /\ StepTo(IF last.c = EOF
              THEN IF last.frames[Len(last.frames)].read_condition = READ_UNTIL_END_OF_BLOCK
                   THEN Raise(last) ELSE EndCall(last)
              ELSE IF last.c = "}"
              THEN IF last.frames[Len(last.frames)].read_condition # READ_UNTIL_END_OF_BLOCK
                   THEN Raise(last) ELSE EndCall(last)
              ELSE [last EXCEPT !.pc = "gate_name", !.buf = <<>>])

\* read_gate_name: one iteration of its loop, or the lookup after it and
\* the start of circuit_read_single_operation's argument and targets.
GateNameStep ==
    /\ AtPc({"gate_name"})
    /\ StepTo(IF is_name_char(last.c) /\ Len(last.buf) < 32
              THEN [ReadChar(last) EXCEPT !.buf = Append(@, last.c)]
              ELSE IF GateAt(last, last.buf).err THEN Raise(last)
              ELSE IF GATE_TAKES_PARENS_ARGUMENT \in Flags(GateAt(last, last.buf).v)
              THEN [last EXCEPT !.gate = GateAt(last, last.buf).v, !.pc = "parens_ws"]
              ELSE [last EXCEPT !.gate = GateAt(last, last.buf).v, !.val = 0,
                                !.offset = Len(last.cir.jagged_data), !.pc = "arg_check"])

\* read_parens_argument with the space before it: one iteration of a loop
\* over spaces or of the loop of read_non_negative_double, or the tests
\* between two loops.
ParensArgumentStep ==
    /\ AtPc({"parens_ws", "parens_ws1", "double", "parens_ws2"})
    /\ StepTo(IF last.pc # "double" /\ last.c \in {" ", "\t"} THEN ReadChar(last)
              ELSE IF last.pc = "parens_ws"
              THEN IF last.c # "(" THEN Raise(last)
                   ELSE [ReadChar(last) EXCEPT !.pc = "parens_ws1"]
              ELSE IF last.pc = "parens_ws1" THEN [last EXCEPT !.pc = "double", !.buf = <<>>]
              ELSE IF last.pc = "double"
              THEN IF Len(last.buf) < 63 /\ is_double_char(last.c)
                   THEN [ReadChar(last) EXCEPT !.buf = Append(@, last.c)]
                   ELSE IF StrToD(last.buf) < 0 THEN Raise(last)
                   ELSE [last EXCEPT !.val = StrToD(last.buf), !.pc = "parens_ws2"]
              ELSE IF last.c # ")" THEN Raise(last)
              ELSE [ReadChar(last) EXCEPT !.offset = Len(last.cir.jagged_data),
                                          !.pc = "arg_check"])

\* read_until_next_line_arg, called by the loop of a targets reader: the
\* separator test, one iteration of the loop over spaces or of the loop
\* over a comment, and the returned flag, on which the targets loop goes
\* on to a target or ends.
NextLineArgStep ==
    /\ AtPc({"arg_check", "arg_ws", "arg_comment"})
    /\ StepTo(IF last.pc = "arg_check"
              THEN IF last.c \notin {" ", "#", "\t", "\n", "{", EOF} THEN Raise(last)
                   ELSE [last EXCEPT !.pc = "arg_ws"]
              ELSE IF last.pc = "arg_ws" /\ last.c \in {" ", "\t"} THEN ReadChar(last)
              ELSE IF last.pc = "arg_ws" /\ last.c = "#"
              THEN [ReadChar(last) EXCEPT !.pc = "arg_comment"]
              ELSE IF last.pc = "arg_comment" /\ last.c # "\n" /\ last.c # EOF
              THEN ReadChar(last)
              ELSE IF last.c # "\n" /\ last.c # "{" /\ last.c # EOF
              THEN [last EXCEPT !.pc = "target"]
              ELSE [last EXCEPT !.pc = "op_end"])

\* One target of a targets reader: the characters before its number, then
\* read_uint24_t, one iteration of its do-while loop per step, and the
\* reader's use of the number.
TargetStep ==
    /\ AtPc({"target", "uint"})
    /\ StepTo(IF last.pc = "uint"
              THEN IF TooLarge(TimesTenPlus(last.acc, last.c)) THEN Raise(last)
                   ELSE IF NextChar(last) \in Digits
                   THEN [ReadChar(last) EXCEPT !.acc = TimesTenPlus(last.acc, last.c)]
                   ELSE UintRead([ReadChar(last) EXCEPT
                                     !.acc = TimesTenPlus(last.acc, last.c)])
              ELSE IF TargetForm(Flags(last.gate)) = "result"
              THEN IF last.c = "!"
                   THEN IF NextChar(last) \notin Digits THEN Raise(ReadChar(last))
                        ELSE [ReadChar(last) EXCEPT !.pc = "uint", !.acc = ZeroW,
                                 !.mask = TARGET_INVERTED_MASK, !.then = "result"]
                   ELSE IF last.c \notin Digits THEN Raise(last)
                   ELSE [last EXCEPT !.pc = "uint", !.acc = ZeroW, !.mask = ZeroW,
                                     !.then = "result"]
              ELSE IF TargetForm(Flags(last.gate)) = "pauli"
              THEN IF last.c \notin {"X", "x", "Y", "y", "Z", "z"} THEN Raise(last)
                   ELSE IF NextChar(last) = " " THEN Raise(ReadChar(last))
                   ELSE IF NextChar(last) \notin Digits THEN Raise(ReadChar(last))
                   ELSE [ReadChar(last) EXCEPT !.pc = "uint", !.acc = ZeroW,
                            !.mask = PauliMask(last.c), !.then = "pauli"]
              ELSE IF last.c \notin Digits THEN Raise(last)
              ELSE [last EXCEPT !.pc = "uint", !.acc = ZeroW, !.mask = ZeroW,
                                !.then = TargetForm(Flags(last.gate))])

\* The operation just pushed is a REPEAT: its count is popped and the
\* block's body is read by a call of circuit_read_operations of its own.
RepeatRead(s) ==
    IF s.cir.operations[Len(s.cir.operations)].length # 1 THEN Raise(s)
    ELSE IF s.cir.jagged_data[Len(s.cir.jagged_data)].lo = 0 THEN Raise(PopRepeat(s))
    ELSE [PopRepeat(s) EXCEPT
             !.pc = "loop",
             !.frames =
                 Append([s.frames EXCEPT
                            ![Len(s.frames)].reps =
                                s.cir.jagged_data[Len(s.cir.jagged_data)].lo,
                            ![Len(s.frames)].rep_count =
                                s.cir.jagged_data[Len(s.cir.jagged_data)].lo,
                            ![Len(s.frames)].ops_start = Len(s.cir.operations) - 1,
                            ![Len(s.frames)].num_measure_start = s.cir.num_measurements],
                        Frame(READ_UNTIL_END_OF_BLOCK))]

\* The end of circuit_read_single_operation (the brace and pair checks and
\* the push) and what circuit_read_operations does with the operation:
\* open a block, fuse it into the one before, or keep it.
OperationEndStep ==
    /\ AtPc({"op_end"})
    /\ StepTo(IF TargetsRead(last, last.gate, last.val, last.offset).err THEN Raise(last)
              ELSE IF last.gate = "REPEAT"
              THEN RepeatRead(TargetsRead(last, last.gate, last.val, last.offset))
              ELSE IF parser_fuses(last.frames[Len(last.frames)].can_fuse,
                                   TargetsRead(last, last.gate, last.val, last.offset)
                                       .cir.operations)
              THEN WhileCondition(
                       [TargetsRead(last, last.gate, last.val, last.offset) EXCEPT
                           !.cir.operations = FuseLastTwo(@)])
              ELSE WhileCondition(
                       [TargetsRead(last, last.gate, last.val, last.offset) EXCEPT
                           !.frames[Len(last.frames)].can_fuse = TRUE]))

\* while (rep_count > 1) { ops.insert(...); rep_count--; }: one iteration,
\* or the end of the REPEAT branch.
ReplicateStep ==
    /\ AtPc({"replicate"})
    /\ StepTo(IF last.frames[Len(last.frames)].rep_count > 1
              THEN [last EXCEPT
                       !.cir.operations =
                           @ \o SubSeq(@, last.frames[Len(last.frames)].ops_start + 1,
                                       last.frames[Len(last.frames)].ops_end),
                       !.frames[Len(last.frames)].rep_count = @ - 1]
              ELSE WhileCondition([last EXCEPT !.frames[Len(last.frames)].can_fuse = FALSE]))

\* The texts of the step machine: the fixed programs, every failing line,
\* the programs of the target and stream machines, and blocks of every
\* count up to one past MaxRepeat.
StepPrograms ==
    FixedPrograms \cup TargetPrograms
    \cup {BlockAmongLines, NoLineEnding, TrailingNote}
    \cup {BadProgram(<<"M0">>, b) : b \in BadLines}
    \cup {RepeatProgram(k, <<"Mn1", "H0">>) : k \in 0..(MaxRepeat + 1)}

\* One iteration of some loop of the parser, or the code between two loops.
ParserStep ==
    \/ LoopStep
    \/ DeadSpaceStep
    \/ AfterDeadSpace
    \/ GateNameStep
    \/ ParensArgumentStep
    \/ NextLineArgStep
    \/ TargetStep
    \/ OperationEndStep
    \/ ReplicateStep

NextSteps ==
    \/ \E prog \in StepPrograms,
          read_condition \in {READ_UNTIL_END_OF_FILE, READ_AS_LITTLE_AS_POSSIBLE} :
          BeginParse(TextOf(prog), read_condition)
    \/ ParserStep

\* The parser runs on the caller's thread: a call that has begun keeps
\* executing, so a step that is possible is taken.
SpecSteps == Init /\ [][NextSteps]_vars /\ WF_vars(ParserStep)

\* ------------------------------------------------------------ properties

\* The number of targets of result-producing operations among the first k.
RECURSIVE ResultTargetCount(_, _)
ResultTargetCount(c, k) ==
    IF k = 0 THEN 0
    ELSE ResultTargetCount(c, k - 1) +
         (IF GATE_PRODUCES_RESULTS \in Flags(c.operations[k].gate)
          THEN c.operations[k].length ELSE 0)

\* C1: after any sequence of successful builder operations and parses,
\* num_measurements is the sum of the target counts of the operations whose
\* gate has PRODUCES_RESULTS.
NumMeasurementsIsResultCount ==
    Usable =>
        \A x \in Names :
            cir[x].num_measurements = ResultTargetCount(cir[x], Len(cir[x].operations))

\* The positions i where operations i and i+1 are fusable with each other.
FusablePairs(c) ==
    {i \in 1..(Len(c.operations) - 1) : can_fuse(c.operations[i], c.operations[i + 1])}

\* C2 as stated: in every circuit reachable by parses and append-API calls
\* no two adjacent operations are fusable with each other.
NoAdjacentFusable == Usable => \A x \in Names : FusablePairs(cir[x]) = {}

\* C2 as amended: a successful append_op with allow_fusing = true leaves
\* the set of positions of adjacent fusable operations as it was: it
\* creates no adjacent fusable pair.
FusingAppendOpAddsNoFusablePair ==
    [][(last'.op = "append_op" /\ last'.status = "ok" /\ last'.allow_fusing)
          => \A x \in Names : FusablePairs(cir'[x]) = FusablePairs(cir[x])]_vars

\* A fusing append_op has merged its targets into the last of several
\* operations.
FusingAppendOpMerged ==
    /\ last.op = "append_op" /\ last.status = "ok" /\ last.fused
    /\ Len(cir["a"].operations) >= 2

\* C3: parsing str(C) of a parsed circuit C yields a circuit equal to C:
\* same num_qubits, same num_measurements, same operation sequence.
RoundTripIsExact ==
    last.op = "round_trip" => last.status = "ok" /\ CircuitEq(cir["a"], cir["b"])

\* The operations of the body of a REPEAT program parsed on its own.
BodyOperations(prog) == from_text(TextOfLines(prog.lines)).c.operations

BodyFusesWithItself(ops) == ops # <<>> /\ can_fuse(ops[Len(ops)], ops[1])

\* C4 as stated: parsing REPEAT k { body } yields the operation sequence
\* and the num_measurements of body written out k times, for k >= 1, and
\* k = 0 is rejected.
RepeatIsBodyWrittenOut ==
    last.op = "written_out" =>
        IF last.prog.k = 0 THEN last.repeat_status = "thrown"
        ELSE /\ last.repeat_status = "ok" /\ last.status = "ok"
             /\ OpViews(cir["a"]) = OpViews(cir["b"])
             /\ cir["a"].num_measurements = cir["b"].num_measurements

\* C4 as amended: k = 0 is rejected; for k >= 1 both texts parse to the
\* same num_measurements, and the operation sequences are equal exactly
\* when k = 1 or the last operation of the body cannot fuse with its first.
RepeatIsBodyWrittenOutUnlessFusing ==
    last.op = "written_out" =>
        IF last.prog.k = 0 THEN last.repeat_status = "thrown"
        ELSE /\ last.repeat_status = "ok" /\ last.status = "ok"
             /\ cir["a"].num_measurements = cir["b"].num_measurements
             /\ (OpViews(cir["a"]) = OpViews(cir["b"]))
                    <=> (last.prog.k = 1 \/ ~BodyFusesWithItself(BodyOperations(last.prog)))

\* A block of several operations with measurements was repeated and is
\* equal to its body written out.
RepeatedBlockWrittenOut ==
    /\ last.op = "written_out" /\ last.prog.k >= 2
    /\ Len(cir["a"].operations) >= 4 /\ cir["a"].num_measurements >= 2
    /\ OpViews(cir["a"]) = OpViews(cir["b"])

\* C5: after a parse failed in an instruction, the operation sequence is
\* exactly the operations completed before that instruction started.
FailedInstructionLeavesNoOperation ==
    (last.op = "append_from_text" /\ last.status = "thrown" /\ last.prog.kind = "bad")
        => OpViews(cir["a"]) = OpViews(from_text(TextOfLines(last.prog.lines)).c)

\* The qubits measured by the first n operations, one entry per target of a
\* result-producing operation, in program order: entry j + 1 is the
\* measurement of global index j.
RECURSIVE MeasuredQubits(_, _)
MeasuredQubits(c, n) ==
    IF n = 0 THEN <<>>
    ELSE MeasuredQubits(c, n - 1) \o
         (IF GATE_PRODUCES_RESULTS \in Flags(c.operations[n].gate)
          THEN [i \in 1..c.operations[n].length |->
                   QubitOf(Targets(c, c.operations[n])[i])]
          ELSE <<>>)

\* The global index of the dt-th most recent measurement of qubit q in ms.
NthMostRecent(ms, q, dt) ==
    CHOOSE j \in 0..(Len(ms) - 1) :
        ms[j + 1] = q /\ Cardinality({i \in (j + 2)..Len(ms) : ms[i] = q}) = dt - 1

\* The measurements the targets of operation n refer to, target by target.
Referred(c, n) ==
    [i \in 1..c.operations[n].length |->
        NthMostRecent(MeasuredQubits(c, n - 1), QubitOf(Targets(c, c.operations[n])[i]),
                      RecordOf(Targets(c, c.operations[n])[i]))]

\* The positions of the operations of gate g, in program order.
PositionsOf(c, g) ==
    SelectSeq([i \in 1..Len(c.operations) |-> i], LAMBDA i : c.operations[i].gate = g)

ExpectedDetectors(c) ==
    [j \in 1..Len(PositionsOf(c, "DETECTOR")) |-> Referred(c, PositionsOf(c, "DETECTOR")[j])]

\* What the OBSERVABLE_INCLUDE(k) operations among the first n refer to.
RECURSIVE IncludedIn(_, _, _)
IncludedIn(c, n, k) ==
    IF n = 0 THEN <<>>
    ELSE IncludedIn(c, n - 1, k) \o
         (IF c.operations[n].gate = "OBSERVABLE_INCLUDE" /\ c.operations[n].arg = 1000 * k
          THEN Referred(c, n) ELSE <<>>)

MentionedObservables(c) ==
    {c.operations[n].arg \div 1000 :
        n \in {m \in 1..Len(c.operations) : c.operations[m].gate = "OBSERVABLE_INCLUDE"}}

ExpectedObservables(c) ==
    IF MentionedObservables(c) = {} THEN <<>>
    ELSE [k \in 1..(1 + CHOOSE m \in MentionedObservables(c) :
                            \A n \in MentionedObservables(c) : n <= m) |->
             IncludedIn(c, Len(c.operations), k - 1)]

AppendOpWithoutParensFlag ==
    /\ last.op = "append_op"
    /\ last.inp.gate \in GateNames
    /\ GATE_TAKES_PARENS_ARGUMENT \notin Flags(last.inp.gate)

\* append_op rejects arg # 0 for a gate without TAKES_PARENS_ARGUMENT and
\* accepts arg = 0 (on the valid targets of a gate that is not paired).
AppendOpTakesOnlyZeroArg ==
    AppendOpWithoutParensFlag =>
        /\ last.inp.arg # 0 => last.status = "thrown"
        /\ (last.inp.arg = 0 /\ GATE_TARGETS_PAIRS \notin Flags(last.inp.gate))
               => last.status = "ok"

\* The text H(0.5) 0 or H(0) 0 was parsed.
ParsedWithParens(bad) ==
    last.op = "append_from_text" /\ last.prog.kind = "bad" /\ last.prog.bad = bad

\* C8 as stated: for a gate without TAKES_PARENS_ARGUMENT, the name followed
\* by (0.5) is rejected and the name followed by (0) and valid targets parses
\* to an operation with arg = 0; append_op rejects arg # 0 and accepts
\* arg = 0 for such a gate.
ZeroParensParseOnAnyGate ==
    /\ ParsedWithParens("Hp5") => last.status = "thrown"
    /\ ParsedWithParens("Hp0") =>
           /\ last.status = "ok"
           /\ cir[last.on].operations # <<>>
           /\ cir[last.on].operations[Len(cir[last.on].operations)].arg = 0
    /\ AppendOpTakesOnlyZeroArg

\* C8 as amended: for a gate without TAKES_PARENS_ARGUMENT the parser
\* rejects the name followed by (0.5) and also the name followed by (0);
\* append_op rejects arg # 0 and accepts arg = 0 for such a gate.
ParensRejectedWithoutParensFlag ==
    /\ ParsedWithParens("Hp5") => last.status = "thrown"
    /\ ParsedWithParens("Hp0") => last.status = "thrown"
    /\ AppendOpTakesOnlyZeroArg

\* H(0) 0 was parsed and rejected.
ZeroParensRejected == ParsedWithParens("Hp0") /\ last.status = "thrown"

\* C9: every operation of a TARGETS_PAIRS gate in a reachable circuit has an
\* even target count and no pair (targets 2k, 2k+1) of equal qubit indices.
PairsAreOnDistinctQubits ==
    Usable =>
        \A x \in Names : \A n \in 1..Len(cir[x].operations) :
            GATE_TARGETS_PAIRS \in Flags(cir[x].operations[n].gate) =>
                /\ cir[x].operations[n].length % 2 = 0
                /\ \A k \in 1..(cir[x].operations[n].length \div 2) :
                       QubitOf(Targets(cir[x], cir[x].operations[n])[2 * k - 1])
                           # QubitOf(Targets(cir[x], cir[x].operations[n])[2 * k])

\* The qubit indices of all targets of all operations.
QubitsOf(c) ==
    {QubitOf(Targets(c, c.operations[n])[i]) :
        <<n, i>> \in {<<m, j>> \in (1..Len(c.operations)) \X (1..Len(c.jagged_data)) :
                         j <= c.operations[m].length}}

\* C10: after successful parses and builder operations num_qubits is 1 + the
\* largest qubit index over all targets of all operations, 0 without
\* targets; a REPEAT repetition count does not contribute.
NumQubitsIsLargestQubitPlusOne ==
    Usable =>
        \A x \in Names :
            cir[x].num_qubits =
                IF QubitsOf(cir[x]) = {} THEN 0
                ELSE 1 + CHOOSE q \in QubitsOf(cir[x]) : \A r \in QubitsOf(cir[x]) : r <= q

\* A REPEAT block with a count above every qubit index was parsed.
RepeatCountAboveQubits ==
    /\ last.op = "append_from_text" /\ last.status = "ok"
    /\ last.prog = RepeatProgram(2, <<"H1">>)
    /\ cir[last.on].num_qubits = 2

\* The second half of the operations of c repeats the first half, operation
\* by operation (gate, arg and target words).
SecondHalfRepeatsFirst(c, n) ==
    /\ Len(c.operations) = 2 * n
    /\ \A i \in 1..n :
           /\ c.operations[n + i].gate = c.operations[i].gate
           /\ c.operations[n + i].arg = c.operations[i].arg
           /\ Targets(c, c.operations[n + i]) = Targets(c, c.operations[i])

\* C11: C += C doubles num_measurements and the number of operations, the
\* second half of the operations being equal to the first half operation by
\* operation and the first half being kept, and leaves num_qubits unchanged.
SelfAppendDoubles ==
    [][(last'.op = "plus_eq" /\ last'.other = last'.on) =>
          /\ cir'[last'.on].num_measurements = 2 * cir[last'.on].num_measurements
          /\ SecondHalfRepeatsFirst(cir'[last'.on], Len(cir[last'.on].operations))
          /\ SubSeq(OpViews(cir'[last'.on]), 1, Len(cir[last'.on].operations))
                 = OpViews(cir[last'.on])
          /\ cir'[last'.on].num_qubits = cir[last'.on].num_qubits]_vars

\* A circuit with measurements was appended to itself.
SelfAppended ==
    /\ last.op = "plus_eq" /\ last.other = last.on /\ last.status = "ok"
    /\ Len(cir[last.on].operations) >= 2
    /\ cir[last.on].num_measurements >= 2

\* C12 as stated: after append_circuit(other, 0) and after C *= 0 the target
\* circuit has no operations, an empty arena, num_qubits = 0 and
\* num_measurements = 0.
ZeroRepetitionsClear ==
    (last.op \in {"append_circuit", "times_eq"} /\ last.repetitions = 0) =>
        cir[last.on] = EmptyCircuit

\* C12 as amended: C *= 0 leaves the circuit with no operations, an empty
\* arena, num_qubits = 0 and num_measurements = 0; append_circuit(other, 0)
\* leaves the target circuit as it was.
ZeroTimesClearsZeroAppendKeeps ==
    [][/\ (last'.op = "times_eq" /\ last'.repetitions = 0) =>
              cir'[last'.on] = EmptyCircuit
       /\ (last'.op = "append_circuit" /\ last'.repetitions = 0) => cir' = cir]_vars

\* A circuit with operations was multiplied by zero.
TimesZeroCleared ==
    /\ last.op = "times_eq" /\ last.repetitions = 0 /\ last.before >= 1
    /\ cir[last.on] = EmptyCircuit

\* The bits the claim permits in a target of a gate with `flags`.
PermittedBits(flags) ==
    OrW(OrW(TARGET_QUBIT_MASK,
            IF GATE_PRODUCES_RESULTS \in flags THEN TARGET_INVERTED_MASK ELSE ZeroW),
        OrW(IF GATE_TARGETS_PAULI_STRING \in flags
            THEN OrW(TARGET_PAULI_X_MASK, TARGET_PAULI_Z_MASK) ELSE ZeroW,
            IF GATE_ONLY_TARGETS_MEASUREMENT_RECORD \in flags
                   \/ GATE_CAN_TARGET_MEASUREMENT_RECORD \in flags
            THEN TARGET_RECORD_MASK ELSE ZeroW))

HasOtherBits(w, flags) == w # AndW(w, PermittedBits(flags))

\* The <<n, i>> of target i of operation n of c.
TargetPositions(c) ==
    {<<n, i>> \in (1..Len(c.operations)) \X (1..Len(c.jagged_data)) :
        i <= c.operations[n].length}

TargetAt(c, pos) == Targets(c, c.operations[pos[1]])[pos[2]]

GateAtPos(c, pos) == c.operations[pos[1]].gate

\* append_op was called for a gate of the catalog.
AppendOpOnKnownGate == last.op = "append_op" /\ last.inp.gate \in GateNames

\* C13: in every circuit reachable by successful parses and append_op calls
\* each target word has no bit outside the mask its gate's flags permit,
\* and append_op rejects a target word with a bit outside that mask.
TargetsCarryOnlyPermittedBits ==
    /\ ~MustDiscard =>
           \A pos \in TargetPositions(cir["a"]) :
               ~HasOtherBits(TargetAt(cir["a"], pos), Flags(GateAtPos(cir["a"], pos)))
    /\ (AppendOpOnKnownGate
           /\ \E i \in 1..Len(last.inp.vec) :
                  HasOtherBits(last.inp.vec[i], Flags(last.inp.gate)))
          => last.status = "thrown"

\* A target that lacks what its gate requires: a lookback field of 0 under
\* ONLY_TARGETS_MEASUREMENT_RECORD, or neither Pauli bit under
\* TARGETS_PAULI_STRING.
LacksRequiredBits(w, flags) ==
    \/ GATE_ONLY_TARGETS_MEASUREMENT_RECORD \in flags /\ RecordOf(w) = 0
    \/ /\ GATE_TARGETS_PAULI_STRING \in flags
       /\ AndW(w, OrW(TARGET_PAULI_X_MASK, TARGET_PAULI_Z_MASK)) = ZeroW

\* C14: append_op rejects a target of an ONLY_TARGETS_MEASUREMENT_RECORD
\* gate whose lookback field is 0 and a target of a TARGETS_PAULI_STRING gate
\* with neither Pauli bit set, so no reachable circuit holds such a target.
AppendOpRequiresRecordAndPauliBits ==
    /\ (AppendOpOnKnownGate
           /\ \E i \in 1..Len(last.inp.vec) :
                  LacksRequiredBits(last.inp.vec[i], Flags(last.inp.gate)))
          => last.status = "thrown"
    /\ ~MustDiscard =>
           \A pos \in TargetPositions(cir["a"]) :
               ~LacksRequiredBits(TargetAt(cir["a"], pos), Flags(GateAtPos(cir["a"], pos)))

\* The number of measurements of qubit q made by the first n operations.
MeasurementsOf(c, q, n) ==
    Cardinality({pos \in TargetPositions(c) :
                    /\ pos[1] <= n
                    /\ GATE_PRODUCES_RESULTS \in Flags(GateAtPos(c, pos))
                    /\ QubitOf(TargetAt(c, pos)) = q})

\* The targets of DETECTOR and OBSERVABLE_INCLUDE operations whose lookback
\* is 0 or reaches before the first measurement of their qubit.
UnresolvableTargets(c) ==
    {pos \in TargetPositions(c) :
        /\ GateAtPos(c, pos) \in {"DETECTOR", "OBSERVABLE_INCLUDE"}
        /\ \/ RecordOf(TargetAt(c, pos)) = 0
           \/ RecordOf(TargetAt(c, pos))
                  > MeasurementsOf(c, QubitOf(TargetAt(c, pos)), pos[1] - 1)}

\* C15: the resolver rejects the whole circuit, returning no detector or
\* observable result, when a DETECTOR or OBSERVABLE_INCLUDE target has
\* lookback 0 or a lookback greater than the number of measurements of its
\* qubit made by the operations before it.
ResolverRejectsUnresolvableTargets ==
    (last.op = "resolve" /\ UnresolvableTargets(cir["a"]) # {}) =>
        last.status = "thrown" /\ last.detectors = <<>> /\ last.observables = <<>>

\* The resolver rejected a circuit in which a detector resolves and a later
\* target has lookback 0.
ResolverRejectedZeroLookback ==
    /\ last.op = "resolve" /\ last.status = "thrown"
    /\ \E pos \in UnresolvableTargets(cir["a"]) :
           /\ RecordOf(TargetAt(cir["a"], pos)) = 0
           /\ pos[1] >= 3
    /\ \E pos \in TargetPositions(cir["a"]) \ UnresolvableTargets(cir["a"]) :
           GateAtPos(cir["a"], pos) = "DETECTOR"

\* The arena positions that lie in the target slice of some operation.
SliceCover(c) ==
    UNION {(c.operations[n].offset + 1)..(c.operations[n].offset + c.operations[n].length) :
              n \in 1..Len(c.operations)}

ParsedOk == last.op = "append_from_text" /\ last.status = "ok"

\* C16: after a successful parse no operation has the REPEAT gate and the
\* repetition count is not in the arena (every arena word is a target of an
\* operation, and the arena of a block is the arena of its body); a REPEAT
\* with count 0 and a REPEAT with other than one target are rejected.
RepeatIsNotRetained ==
    /\ ParsedOk =>
           /\ \A n \in 1..Len(cir["a"].operations) : cir["a"].operations[n].gate # "REPEAT"
           /\ SliceCover(cir["a"]) = 1..Len(cir["a"].jagged_data)
           /\ last.prog.kind = "repeat" =>
                  cir["a"].jagged_data = from_text(TextOfLines(last.prog.lines)).c.jagged_data
    /\ (last.op = "append_from_text" /\ last.prog.kind = "repeat" /\ last.prog.k = 0)
          => last.status = "thrown"
    /\ (last.op = "append_from_text" /\ last.prog.kind = "bad"
           /\ last.prog.bad \in {"R0", "R12", "Rnone"}) => last.status = "thrown"

\* A block of two operations with targets was parsed and repeated.
RepeatedBlockParsed ==
    /\ ParsedOk /\ last.prog.kind = "repeat" /\ last.prog.k >= 2
    /\ Len(cir["a"].operations) >= 4
    /\ Len(cir["a"].jagged_data) >= 2

\* The operations a line yields when it is parsed on its own.
LineViews(id) == OpViews(from_text(LINES[id]).c)

\* The lines that are whole instructions, comments or blank: they parse on
\* their own.
RECURSIVE AreInstructionLines(_)
AreInstructionLines(ids) ==
    ids = <<>> \/ (from_text(LINES[Head(ids)]).ok /\ AreInstructionLines(Tail(ids)))

\* The instructions of lines `ids` in input order, one view each.
RECURSIVE InstructionViews(_)
InstructionViews(ids) ==
    IF ids = <<>> THEN <<>> ELSE LineViews(Head(ids)) \o InstructionViews(Tail(ids))

SameRun(v, w) ==
    v.gate = w.gate /\ v.arg = w.arg /\ GATE_IS_NOT_FUSABLE \notin Flags(v.gate)

\* Every maximal run of instructions with the same gate, equal arg and a
\* fusable gate made one operation on the concatenated targets.
RECURSIVE MergeRuns(_, _)
MergeRuns(views, acc) ==
    IF views = <<>> THEN acc
    ELSE IF acc # <<>> /\ SameRun(acc[Len(acc)], Head(views))
    THEN MergeRuns(Tail(views),
                   [acc EXCEPT ![Len(acc)].targets = @ \o Head(views).targets])
    ELSE MergeRuns(Tail(views), Append(acc, Head(views)))

\* C17: within one parse and outside REPEAT blocks every maximal run of
\* consecutive instructions with the same gate, equal arg and a gate that is
\* not NOT_FUSABLE becomes one operation on the concatenated targets;
\* another gate splits the run and NOT_FUSABLE gates are never merged.
RunsOfInstructionsAreMerged ==
    (ParsedOk /\ last.prog.kind = "plain" /\ AreInstructionLines(last.prog.lines)) =>
        OpViews(cir["a"]) = MergeRuns(InstructionViews(last.prog.lines), <<>>)

\* Seven instructions were parsed into five operations: a run of three
\* merged, two args kept apart, two detectors kept apart.
RunOfThreeMerged ==
    /\ ParsedOk /\ last.prog = Run3
    /\ Len(cir["a"].operations) = 5
    /\ cir["a"].operations[1].length = 3

\* The braces outside comments of a text are balanced: as many '{' as '}',
\* and up to every '}' at least as many '{' as '}'.
InComment(text, i) ==
    \E j \in 1..(i - 1) : text[j] = "#" /\ \A k \in j..(i - 1) : text[k] # "\n"

BracesAt(text, ch) == {i \in 1..Len(text) : text[i] = ch /\ ~InComment(text, i)}

BalancedBraces(opens, closes) ==
    /\ Cardinality(opens) = Cardinality(closes)
    /\ \A c \in closes :
          Cardinality({o \in opens : o < c}) >= Cardinality({d \in closes : d <= c})

Balanced(text) == BalancedBraces(BracesAt(text, "{"), BracesAt(text, "}"))

\* C18: a parse until the end of the input succeeds only if the block
\* braces are balanced at every depth: the end of the input inside an open
\* block fails, a '}' with no block open fails, a block gate without '{' on
\* its line fails, and a '{' after a gate that is no block fails.
ParseSucceedsOnlyIfBalanced ==
    last.op = "append_from_text" =>
        /\ last.status = "ok" => Balanced(TextOf(last.prog))
        /\ last.prog \in {Unterminated, NestedUnterminated, StrayClose, ClosedTwice,
                          BraceOnNextLine, BlockOnOtherGate} => last.status = "thrown"
        /\ (last.prog.kind = "bad" /\ last.prog.bad \in {"Rnobrace", "Hbrace", "STRAY"})
              => last.status = "thrown"

\* A block nested in a block was parsed.
NestedBlocksParsed ==
    /\ ParsedOk /\ last.prog = Nested
    /\ Len(cir["a"].operations) = 6

\* The first character from i on that is not in a blank or comment line
\* (Len(text) + 1 when there is none).
RECURSIVE InstructionStart(_, _, _)
InstructionStart(text, i, in_comment) ==
    IF i > Len(text) THEN i
    ELSE IF in_comment THEN InstructionStart(text, i + 1, text[i] # "\n")
    ELSE IF text[i] = "#" THEN InstructionStart(text, i + 1, TRUE)
    ELSE IF isspace(text[i]) THEN InstructionStart(text, i + 1, FALSE)
    ELSE i

\* The terminator of the instruction that starts at i: its line ending, or
\* the '}' that closes its block, or the end of the text.
RECURSIVE Terminator(_, _, _, _)
Terminator(text, i, depth, in_comment) ==
    IF i > Len(text) THEN Len(text)
    ELSE IF text[i] = "\n" /\ depth = 0 THEN i
    ELSE IF in_comment THEN Terminator(text, i + 1, depth, text[i] # "\n")
    ELSE IF text[i] = "#" THEN Terminator(text, i + 1, depth, TRUE)
    ELSE IF text[i] = "{" THEN Terminator(text, i + 1, depth + 1, FALSE)
    ELSE IF text[i] = "}" /\ depth <= 1 THEN i
    ELSE IF text[i] = "}" THEN Terminator(text, i + 1, depth - 1, FALSE)
    ELSE Terminator(text, i + 1, depth, FALSE)

\* The number of characters pulled once the first instruction after the
\* first k characters was read up to its terminator.
InstructionEnd(text, k) ==
    IF InstructionStart(text, k + 1, FALSE) > Len(text) THEN Len(text)
    ELSE Terminator(text, InstructionStart(text, k + 1, FALSE), 0, FALSE)

\* The circuit of characters k + 1 .. n of a text parsed on their own.
SliceCircuit(text, k, n) == from_text(SubSeq(text, k + 1, n)).c

\* C19: a successful call in AS_LITTLE_AS_POSSIBLE mode skips blank and
\* comment lines, reads one top-level instruction (a whole block counting
\* as one) and pulls no character beyond its terminator; once the stream
\* is used up the circuit is, up to fusion between calls, the circuit of
\* the stream read at once.
OneInstructionPerCall ==
    [][(last'.op = "append_from_file" /\ last'.status = "ok") =>
          /\ last'.stop_asap =>
                 /\ last'.file.k = InstructionEnd(last.file.text, last.file.k)
                 /\ OpViews(cir'["a"]) =
                        OpViews(cir["a"])
                            \o OpViews(SliceCircuit(last.file.text, last.file.k, last'.file.k))
                 /\ cir'["a"].num_measurements =
                        cir["a"].num_measurements
                            + SliceCircuit(last.file.text, last.file.k,
                                           last'.file.k).num_measurements
          /\ last'.file.k = Len(last'.file.text) =>
                 /\ from_text(last'.file.text).ok
                 /\ MergeRuns(OpViews(cir'["a"]), <<>>) =
                        MergeRuns(OpViews(from_text(last'.file.text).c), <<>>)
                 /\ cir'["a"].num_measurements =
                        from_text(last'.file.text).c.num_measurements
                 /\ cir'["a"].num_qubits = from_text(last'.file.text).c.num_qubits]_vars

\* A stream with a block among other instructions was used up by calls
\* that read one instruction each.
StreamReadByInstructions ==
    /\ last.op = "append_from_file" /\ last.status = "ok" /\ last.stop_asap
    /\ last.prog = BlockAmongLines /\ last.calls = 5
    /\ last.file.k = Len(last.file.text)
    /\ Len(cir["a"].operations) = 5

\* The digits a text starts with.
RECURSIVE DigitPrefix(_)
DigitPrefix(text) ==
    IF text = <<>> \/ text[1] \notin Digits THEN <<>>
    ELSE <<text[1]>> \o DigitPrefix(Tail(text))

\* A digit string without its leading zeros, keeping one digit.
RECURSIVE WithoutLeadingZeros(_)
WithoutLeadingZeros(ds) ==
    IF Len(ds) > 1 /\ ds[1] = "0" THEN WithoutLeadingZeros(Tail(ds)) ELSE ds

\* The base-10 value of a digit string of at most eight digits.
RECURSIVE DecimalValue(_)
DecimalValue(ds) ==
    IF ds = <<>> THEN 0
    ELSE 10 * DecimalValue(SubSeq(ds, 1, Len(ds) - 1)) + DigitVal(ds[Len(ds)])

\* The base-10 value of the digit string is below 2^24.
BelowPow24(ds) ==
    /\ ds # <<>>
    /\ Len(WithoutLeadingZeros(ds)) <= 8
    /\ DecimalValue(WithoutLeadingZeros(ds)) < Pow24

\* The digits after "@-" in a record text, <<>> when the text has no "@-".
LookbackDigits(text) ==
    IF \E i \in 1..(Len(text) - 1) : text[i] = "@" /\ text[i + 1] = "-"
    THEN DigitPrefix(SubSeq(text, 2 + (CHOOSE i \in 1..(Len(text) - 1) :
                                           text[i] = "@" /\ text[i + 1] = "-"), Len(text)))
    ELSE <<>>

\* C20: read_uint24_t on a text returns the base-10 value of the digits the
\* text starts with exactly when that value is below 2^24, and throws
\* otherwise; in no pass of its loop does result * 10 + digit reach 2^32, so
\* the 32-bit accumulator holds the true value when it is compared with 2^24;
\* the stepwise loop and the reader the parser calls agree; and
\* read_record_target_into accepts a text with a lookback only when the
\* lookback is in 1..15, writing the qubit with that lookback as the target.
UintReadIsExactAndLookbackInRange ==
    /\ last.op = "read_uint24_t" =>
         /\ last.status = "reading" =>
                last.result.hi * 10
                  + (last.result.lo * 10 + DigitVal(last.p.c)) \div Pow24 < 256
         /\ last.status = "ok" =>
                /\ BelowPow24(DigitPrefix(last.p.text))
                /\ last.result = Word(0, DecimalValue(WithoutLeadingZeros(DigitPrefix(last.p.text))))
                /\ last.result.lo < Pow24
                /\ last.p.k = IF Len(DigitPrefix(last.p.text)) < Len(last.p.text)
                               THEN Len(DigitPrefix(last.p.text)) + 1
                               ELSE Len(last.p.text)
         /\ last.status = "thrown" => ~BelowPow24(DigitPrefix(last.p.text))
         /\ last.status # "reading" =>
                /\ read_uint24_t(ReadChar(StartParse(EmptyCircuit, last.p.text))).err
                       = (last.status = "thrown")
                /\ last.status = "ok" =>
                       read_uint24_t(ReadChar(StartParse(EmptyCircuit, last.p.text))).v
                           = last.result.lo
    /\ (last.op = "read_record_target_into" /\ LookbackDigits(last.text) # <<>>) =>
         /\ last.status = "ok" =>
                /\ BelowPow24(LookbackDigits(last.text))
                /\ DecimalValue(WithoutLeadingZeros(LookbackDigits(last.text))) \in 1..15
                /\ BelowPow24(DigitPrefix(last.text))
                /\ last.targets =
                       <<OrW(Q(DecimalValue(WithoutLeadingZeros(DigitPrefix(last.text)))),
                             ShiftRecord(DecimalValue(WithoutLeadingZeros(LookbackDigits(last.text)))))>>
         /\ last.status = "thrown" =>
                \/ ~BelowPow24(DigitPrefix(last.text))
                \/ ~BelowPow24(LookbackDigits(last.text))
                \/ DecimalValue(WithoutLeadingZeros(LookbackDigits(last.text))) \notin 1..15

\* The largest value was read from its eight digits, and a number of eleven
\* digits and a lookback of 16 were refused.
LargestUintRead ==
    /\ last.op = "read_uint24_t"
    /\ last.status = "ok"
    /\ last.result = Word(0, Pow24 - 1)
    /\ Len(last.p.text) = 8

ElevenDigitsRefused ==
    /\ last.op = "read_uint24_t"
    /\ last.status = "thrown"
    /\ last.p.text = Repeated("9", 11)

LookbackSixteenRefused ==
    /\ last.op = "read_record_target_into"
    /\ last.status = "thrown"
    /\ last.text = <<"0", "@", "-", "1", "6">>

\* C21: the target word the parser stores for `q@-dt` with dt in 1..15
\* decodes to the same lookback ((word & RECORD_MASK) >> RECORD_SHIFT) and
\* the same qubit (word & QUBIT_MASK), and has no bit outside
\* QUBIT_MASK | RECORD_MASK.
RecordWordDecodes ==
    (/\ last.op = "read_record_target_into"
     /\ last.status = "ok"
     /\ LookbackDigits(last.text) # <<>>) =>
        /\ Len(last.targets) = 1
        /\ RecordOf(last.targets[1])
               = DecimalValue(WithoutLeadingZeros(LookbackDigits(last.text)))
        /\ QubitOf(last.targets[1])
               = DecimalValue(WithoutLeadingZeros(DigitPrefix(last.text)))
        /\ AndW(last.targets[1], OrW(TARGET_QUBIT_MASK, TARGET_RECORD_MASK))
               = last.targets[1]
        /\ AndW(last.targets[1], TARGET_INVERTED_MASK) = ZeroW

\* The slice of operation i of c lies within the arena of c.
SliceWithinArena(c, i) ==
    c.operations[i].offset + c.operations[i].length <= Len(c.jagged_data)

\* The slice of operation i of c starts at or after the end of the slice of
\* every earlier operation.
SliceAfterEarlier(c, i) ==
    \A j \in 1..(i - 1) :
        c.operations[j].offset + c.operations[j].length <= c.operations[i].offset

\* Operation i of c starts where an earlier operation of the same gate and
\* arg starts, and holds at least its targets: a copy made by a repetition,
\* possibly extended by a later fusion.
SliceOfCopy(c, i) ==
    \E j \in 1..(i - 1) :
        /\ c.operations[j].offset = c.operations[i].offset
        /\ c.operations[j].gate = c.operations[i].gate
        /\ c.operations[j].arg = c.operations[i].arg
        /\ c.operations[j].length <= c.operations[i].length

\* The claim as stated: in every reachable circuit every slice lies within
\* the arena, and the slices are pairwise disjoint and in program order,
\* also after REPEAT expansion, C *= r and append_circuit with repetitions.
SlicesAreDisjointAndMonotone ==
    \A x \in Names : \A i \in 1..Len(cir[x].operations) :
        SliceWithinArena(cir[x], i) /\ SliceAfterEarlier(cir[x], i)

\* C22: in every reachable circuit every operation's slice lies within the
\* arena, and every operation's slice either starts at or after the end of
\* every earlier operation's slice, or starts at the offset of an earlier
\* operation of the same gate and arg which it copies (copies made by REPEAT
\* expansion, C *= r and append_circuit share the arena range of their
\* original).
SlicesAreDisjointExceptCopies ==
    \A x \in Names : \A i \in 1..Len(cir[x].operations) :
        /\ SliceWithinArena(cir[x], i)
        /\ SliceAfterEarlier(cir[x], i) \/ SliceOfCopy(cir[x], i)

\* C *= r left two operations viewing the same non-empty arena range.
CopiesShareSlice ==
    /\ last.op = "times_eq"
    /\ last.status = "ok"
    /\ \E i, j \in 1..Len(cir["a"].operations) :
          /\ i < j
          /\ cir["a"].operations[i].length > 0
          /\ cir["a"].operations[i].offset = cir["a"].operations[j].offset
          /\ cir["a"].operations[i].length = cir["a"].operations[j].length

\* C23: whenever append_op fuses new targets into the last operation, that
\* operation's slice ends at the arena's end before the targets are added,
\* so that afterwards its targets are its old targets followed by the new
\* ones and no other operation's targets have changed; this in every state
\* of the circuit, one left by a failed parse included.
FusionExtendsLastSliceOnly ==
    [][(last'.op = "append_op" /\ last'.status = "ok" /\ last'.fused) =>
          /\ Len(cir'["a"].operations) = Len(cir["a"].operations)
          /\ cir["a"].operations[Len(cir["a"].operations)].offset
               + cir["a"].operations[Len(cir["a"].operations)].length
                 = Len(cir["a"].jagged_data)
          /\ Targets(cir'["a"], cir'["a"].operations[Len(cir["a"].operations)])
                 = Targets(cir["a"], cir["a"].operations[Len(cir["a"].operations)])
                       \o last'.inp.vec
          /\ \A i \in 1..(Len(cir["a"].operations) - 1) :
                 Targets(cir'["a"], cir'["a"].operations[i])
                     = Targets(cir["a"], cir["a"].operations[i])]_vars

\* C24: when the parse of a text fails at its last instruction, the circuit
\* has the num_qubits, the num_measurements and the arena that the
\* instructions before the failing one gave it: nothing the failing
\* instruction read is counted or left in the arena.
FailedInstructionLeavesStateBefore ==
    (/\ last.op = "append_from_text"
     /\ last.status = "thrown"
     /\ last.prog.kind = "bad") =>
        /\ from_text(TextOfLines(last.prog.lines)).ok
        /\ cir["a"].num_qubits = from_text(TextOfLines(last.prog.lines)).c.num_qubits
        /\ cir["a"].num_measurements
               = from_text(TextOfLines(last.prog.lines)).c.num_measurements
        /\ cir["a"].jagged_data = from_text(TextOfLines(last.prog.lines)).c.jagged_data

\* The check of append_op that input `inp` fails, "none" if it passes all.
FailedCheck(inp) ==
    IF GATE_TARGETS_PAIRS \in Flags(inp.gate) /\ OddCount(inp.vec) THEN "odd pair count"
    ELSE IF GATE_TARGETS_PAIRS \in Flags(inp.gate) /\ SelfInteraction(inp.vec)
    THEN "self-interaction"
    ELSE IF inp.arg # 0 /\ GATE_TAKES_PARENS_ARGUMENT \notin Flags(inp.gate)
    THEN "unexpected arg"
    ELSE IF \E i \in 1..Len(inp.vec) :
               AndW(inp.vec[i], valid_target_mask(Flags(inp.gate))) # inp.vec[i]
    THEN "illegal target bit"
    ELSE "none"

\* C25: an append_op call that fails (odd pair count, self-interaction,
\* non-zero arg on a gate without TAKES_PARENS_ARGUMENT, illegal target bit)
\* leaves operations, arena, num_qubits and num_measurements as they were
\* before the call, and a call that fails one of these checks does throw.
FailingAppendOpChangesNothing ==
    [][last'.op = "append_op" =>
          /\ last'.status = "thrown" => cir' = cir
          /\ FailedCheck(last'.inp) # "none" => last'.status = "thrown"]_vars

\* append_op threw on an illegal target bit with operations in the circuit.
AppendOpThrewOnCircuit ==
    /\ last.op = "append_op"
    /\ last.status = "thrown"
    /\ FailedCheck(last.inp) = "illegal target bit"
    /\ Len(cir["a"].operations) >= 2

\* c += other performed n times, other being a circuit distinct from c.
RECURSIVE PlusChain(_, _, _)
PlusChain(c, other, n) ==
    IF n = 0 THEN c ELSE PlusChain(plus_eq(c, other, FALSE).c, other, n - 1)

\* C26: for k >= 1, C *= k leaves C equal under == to C + C + ... + C with k
\* terms, and for r >= 1, a.append_circuit(b, r) on a circuit b distinct
\* from a leaves a equal under == to a after a += b performed r times.
RepetitionIsIteratedAppend ==
    [][/\ \A k \in 1..MaxReps :
             TimesEq("a", k) =>
                 CircuitEq(cir'["a"], PlusChain(cir["a"], cir["a"], k - 1))
       /\ \A r \in 1..MaxReps :
             AppendCircuit("a", "b", r, FALSE) =>
                 CircuitEq(cir'["a"], PlusChain(cir["a"], cir["b"], r))]_vars

\* The arena an operation points to, by owner.
ArenaOf(owner) == IF owner = "result" THEN last.result.jagged_data ELSE cir[owner].jagged_data

\* The target words an operation views in the arena it points to; a slice
\* that reaches past the end of that arena views no word of any circuit.
Viewed(owner, op) ==
    IF op.offset + op.length <= Len(ArenaOf(owner))
    THEN SubSeq(ArenaOf(owner), op.offset + 1, op.offset + op.length)
    ELSE <<Word(-1, -1)>>

\* Circuit x as a reader sees it: its counts, and every operation with the
\* targets it views.
ValueOf(x) ==
    [num_qubits |-> cir[x].num_qubits,
     num_measurements |-> cir[x].num_measurements,
     operations |-> [i \in 1..Len(cir[x].operations) |->
                        [gate |-> cir[x].operations[i].gate,
                         arg |-> cir[x].operations[i].arg,
                         targets |-> Viewed(Owners[x][i], cir[x].operations[i])]]]

\* C27: after a copy the copy equals the original and all its operations
\* point to its own arena; a call on one circuit (append_op, parse, *=,
\* clear, assignment) leaves the other circuit's operations, targets,
\* num_qubits and num_measurements unchanged; and a + b and a * r leave
\* both operands unchanged and return a circuit whose operations point to
\* its own arena.
CopiesAreIndependent ==
    [][/\ \A x \in Names : \A i \in 1..Len(Owners'[x]) : Owners'[x][i] = x
       /\ \A x \in Names : Len(Owners'[x]) = Len(cir'[x].operations)
       /\ \A x, y \in Names :
             (last'.op = "copy_assign" /\ last'.on = x /\ last'.from = y) =>
                 ValueOf(x)' = ValueOf(y)'
       /\ \A y \in Names : last'.on # y => ValueOf(y)' = ValueOf(y)
       /\ last'.op \in {"plus", "times"} =>
             /\ cir' = cir
             /\ \A i \in 1..Len(last'.result_owners) : last'.result_owners[i] = "result"
             /\ Len(last'.result_owners) = Len(last'.result.operations)
       /\ \A x, y \in Names :
             (last'.op = "plus" /\ last'.left = x /\ last'.right = y) =>
                 OpViews(last'.result) = OpViews(cir[x]) \o OpViews(cir[y])]_vars

\* The original was cleared after a copy of it was made, and the copy still
\* has its operations.
OriginalClearedCopyKept ==
    /\ last.op = "clear"
    /\ last.on = "a"
    /\ cir["a"] = EmptyCircuit
    /\ Len(cir["b"].operations) = 2
    /\ cir["b"].jagged_data # <<>>

\* The result-producing targets of c, as positions <<operation, target>>.
ResultPositions(c) ==
    {pos \in TargetPositions(c) : GATE_PRODUCES_RESULTS \in Flags(GateAtPos(c, pos))}

\* The measurement index of a result-producing target: the number of
\* result-producing targets before it in program order.
MeasurementIndex(c, pos) ==
    Cardinality({p \in ResultPositions(c) :
                    p[1] < pos[1] \/ (p[1] = pos[1] /\ p[2] < pos[2])})

\* The operations of c, by index, that refer to measurements for detectors
\* (entry 0) or for observable o - 1 (entry o >= 1).
ReferringOps(c, detector, o) ==
    SelectSeq([k \in 1..Len(c.operations) |-> k],
              LAMBDA k : IF detector THEN c.operations[k].gate = "DETECTOR"
                         ELSE /\ c.operations[k].gate = "OBSERVABLE_INCLUDE"
                              /\ c.operations[k].arg = 1000 * (o - 1))

\* The targets of the operations ks of c in order, each with its operation.
RECURSIVE ReferringTargets(_, _)
ReferringTargets(c, ks) ==
    IF ks = <<>> THEN <<>>
    ELSE [j \in 1..c.operations[Head(ks)].length |->
             [k |-> Head(ks), t |-> Targets(c, c.operations[Head(ks)])[j]]]
         \o ReferringTargets(c, Tail(ks))

\* Index g, returned for the referring target ref of c, is below
\* num_measurements and is the index of a measurement of ref's qubit made by
\* an operation before ref's operation.
RefersToMeasurement(c, ref, g) ==
    /\ g < c.num_measurements
    /\ \E pos \in ResultPositions(c) :
          /\ MeasurementIndex(c, pos) = g
          /\ pos[1] < ref.k
          /\ QubitOf(TargetAt(c, pos)) = QubitOf(ref.t)

\* The indices returned for the referring operations ks of c are, target by
\* target, measurements the targets refer to.
SetRefersToMeasurements(c, ks, indices) ==
    /\ Len(indices) = Len(ReferringTargets(c, ks))
    /\ \A j \in 1..Len(indices) :
          RefersToMeasurement(c, ReferringTargets(c, ks)[j], indices[j])

\* The result r of the resolver on c assigns num_measurements indices, and
\* every returned index is below num_measurements and is that of an earlier
\* measurement of the qubit its target names.
ResolvedWithinMeasurements(c, r) ==
    /\ r.m = c.num_measurements
    /\ \A d \in 1..Len(r.detectors) :
          SetRefersToMeasurements(c, <<ReferringOps(c, TRUE, 0)[d]>>, r.detectors[d])
    /\ \A o \in 1..Len(r.observables) :
          SetRefersToMeasurements(c, ReferringOps(c, FALSE, o), r.observables[o])

\* C28: on every circuit reached by successful operations on which the
\* resolver succeeds, the resolver assigns num_measurements measurement
\* indices, and every index it returns is below num_measurements and is the
\* index of a measurement of the qubit the referring target names, made by
\* an operation before the referring one.
ResolverIndicesAreCountedMeasurements ==
    (last.status = "ok" /\ list_detectors_and_observables(cir["a"]).ok) =>
        ResolvedWithinMeasurements(cir["a"], list_detectors_and_observables(cir["a"]))

\* A parse call is in progress / has returned or thrown.
ParseRunning == last.op = "parse" /\ last.pc \notin {"returned", "thrown"}
ParseCallOver == last.op = "parse" /\ last.pc \in {"returned", "thrown"}

\* The positions that are a loop over characters on their own.
CharacterLoops ==
    {"dead_space", "dead_comment", "gate_name", "parens_ws", "parens_ws1", "double",
     "parens_ws2", "arg_ws", "arg_comment", "uint"}

\* A step of a call in progress: a loop that goes round has pulled a
\* character or got the sentinel; a pass of a do-while loop throws, pulls a
\* character or gets the sentinel; and at the sentinel no loop goes round
\* and no further target or operation is begun.
LoopsPullOrStop ==
    ParseRunning =>
        /\ last'.k >= last.k /\ last'.k <= Len(last.text)
        /\ (last.pc \in CharacterLoops /\ last'.pc = last.pc) =>
              last'.k > last.k \/ last'.c = EOF
        /\ last.pc \in {"loop", "uint"} =>
              last'.pc = "thrown" \/ last'.k > last.k \/ last'.c = EOF
        /\ last.c = EOF /\ last.pc # "loop" =>
              last'.k = last.k /\ last'.pc \notin {last.pc, "target", "gate_name"}
        /\ (last.pc = "loop" /\ last'.c = EOF) =>
              last'.k = last.k /\ last'.pc = "dead_space"

\* The replication loop of a REPEAT block of count reps has made
\* reps - rep_count copies of the block's body, and it goes round only by
\* counting rep_count down by one and ends only at rep_count = 1.
ReplicationCounts ==
    (last.op = "parse" /\ last.pc = "replicate") =>
        /\ last.frames[Len(last.frames)].rep_count \in 1..last.frames[Len(last.frames)].reps
        /\ Len(last.cir.operations) =
              last.frames[Len(last.frames)].ops_end
              + (last.frames[Len(last.frames)].reps - last.frames[Len(last.frames)].rep_count)
                * (last.frames[Len(last.frames)].ops_end
                   - last.frames[Len(last.frames)].ops_start)

ReplicationCountsDown ==
    (last.op = "parse" /\ last.pc = "replicate") =>
        IF last'.pc = "replicate"
        THEN /\ Len(last'.frames) = Len(last.frames)
             /\ last'.frames[Len(last.frames)].rep_count =
                   last.frames[Len(last.frames)].rep_count - 1
        ELSE last.frames[Len(last.frames)].rep_count = 1

\* C29: on a source that yields finitely many characters and then the
\* sentinel, every parse call, in each read mode and at any depth of
\* blocks, eventually returns or throws: each loop of the parser pulls a
\* character per iteration or stops at the sentinel, and the replication of
\* a REPEAT block of count r runs exactly r - 1 times.
EveryParseCallEnds ==
    /\ ParseRunning ~> ParseCallOver
    /\ [][LoopsPullOrStop /\ ReplicationCountsDown]_vars
    /\ []ReplicationCounts

\* A stop-as-soon-as-possible call on nested blocks has returned after the
\* outer block: the inner body twice and the outer body twice.
NestedBlockCallReturned ==
    /\ last.op = "parse" /\ last.pc = "returned"
    /\ last.text = TextOf(Nested)
    /\ last.frames[1].read_condition = READ_AS_LITTLE_AS_POSSIBLE
    /\ Len(last.cir.operations) = 6


====
